---------------------------- MODULE Spec2Model ----------------------------
(***************************************************************************)
(* Anki Voice Assistant: the client's speculative audio cache, prefetch    *)
(* worker pool and session sequencer (client/src/App.tsx), its             *)
(* voice-activated recorder SpeechOnce (client/src/stt.ts), and the        *)
(* server's grading request POST /api/answer (server/index.js).            *)
(*                                                                         *)
(* Scheduling model: JavaScript's single thread.  One action is one task:  *)
(* the continuation that runs when an awaited I/O operation settles,       *)
(* together with the microtask continuations it triggers, up to the next   *)
(* await on pending I/O.  Consecutive awaits of one function between       *)
(* which no client state is read or written are one pending stage.         *)
(***************************************************************************)
EXTENDS Integers, Sequences, FiniteSets, TLC

VARIABLES
    current,      \* useState current: Null, EmptyCard or a card id
    seq,          \* currentSeqRef.current
    loading,      \* useState loading
    allowAutoplay,\* useState allowAutoplay
    messages,     \* useState messages: the chat, a sequence of message kinds
    ttsUrl,       \* useState ttsUrl: NoUrl or a blob URL
    effect,       \* the dependencies [url, auto] the autoplay effect last ran with
    revoked,      \* URL.revokeObjectURL calls so far: blob URL -> number of calls
    ttsCache,     \* ttsCache.current: a Map, as its entries in insertion order
    inflight,     \* inflight.current: a Set of card ids
    made,         \* URL.createObjectURL calls so far: card id -> number of calls
    startPc,      \* where the pending handleStart is ("idle" when none)
    grades,       \* pending grade() calls: stage -> how many
    speaks,       \* pending on-demand syntheses of ttsSpeakCardFront
    warms,        \* pending warmPrefetch calls
    listen,       \* the Record handler / startListeningForAnswer in progress
    sttLock,      \* sttLockRef.current
    recState,     \* useState recState
    presses,      \* history: what became of each Record button press so far
    inserted,     \* history: the card ids CacheStore gave to cacheSet, in order
    shows,        \* showBack() calls: how many are pending, how many have settled
    mounted,      \* whether the component is mounted (its effect cleanups have not run)
    audio,        \* the audio element: the source it last played and how far
    stt,          \* a SpeechOnce object (stt.ts) and its recordOneUtterance call
    srv           \* the server's POST /api/answer handler and the request it serves

\* the state of the App component
appVars == <<current, seq, loading, allowAutoplay, messages, ttsUrl, effect, revoked,
             ttsCache, inflight, made, startPc, grades, speaks, warms, listen,
             sttLock, recState, presses, inserted, shows, mounted, audio>>

vars == <<current, seq, loading, allowAutoplay, messages, ttsUrl, effect, revoked,
          ttsCache, inflight, made, startPc, grades, speaks, warms, listen,
          sttLock, recState, presses, inserted, shows, mounted, audio, stt, srv>>

----------------------------------------------------------------------------
(* Program constants *)

MAX_CACHE == 12
PREFETCH_COUNT == 5
CONCURRENCY == 4
CANDIDATE_LIMIT == 10

(* Bounds of the model *)

\* card ids of the deck are 1..NumCards
NumCards == 2
\* card ids of the deck in the pool specification SpecWarm are 1..PoolCards
PoolCards == 3
\* item transitions (handleStart or grade advancing the sequence) per run
MaxSeq == 2
\* Record button presses per run
MaxListens == 1
\* overlapping warmPrefetch calls of the pool specification SpecWarm
MaxWarmCalls == 2
\* card ids of the cache specification SpecCache are 1..MAX_CACHE + ExtraIds
ExtraIds == 2
\* cacheSet calls for an id stored before, in SpecCache
MaxRestores == 2

Null == 0
EmptyCard == -1

Cards == 1..NumCards

Min(a, b) == IF a < b THEN a ELSE b

Range(s) == {s[i] : i \in 1..Len(s)}

Last(s) == s[Len(s)]

RemoveAt(s, k) == SubSeq(s, 1, k - 1) \o SubSeq(s, k + 1, Len(s))

----------------------------------------------------------------------------
(* Blob URLs.  A URL is an opaque unique string; the model names the k-th URL
   created for the audio of card id [card |-> id, k |-> k]. *)

NoUrl == [card |-> Null, k |-> 0]

Count(f, x) == IF x \in DOMAIN f THEN f[x] ELSE 0

Bump(f, x) == IF x \in DOMAIN f THEN [f EXCEPT ![x] = @ + 1] ELSE f @@ (x :> 1)

\* URL.createObjectURL(blob) for the audio of cardId
NewUrl(cardId) == [card |-> cardId, k |-> Count(made, cardId) + 1]

\* URL.revokeObjectURL(u); every URL of the model is a blob: URL
Revoke(rv, u) == Bump(rv, u)

----------------------------------------------------------------------------
(* The cache: Map<number, string> in insertion order *)

CacheIds(c) == {c[i].id : i \in 1..Len(c)}

CacheHas(c, cardId) == cardId \in CacheIds(c)

\* Map.get: the URL stored for cardId, NoUrl (undefined) when absent
CacheGet(c, cardId) ==
    IF CacheHas(c, cardId)
    THEN (CHOOSE e \in Range(c) : e.id = cardId).url
    ELSE NoUrl

\* cacheSet with the eviction left out: the entry is stored, nothing is removed
cacheSetNoEvict(c, rv, cardId, blobUrl) ==
    IF CacheHas(c, cardId)
    THEN [cache |-> c, rev |-> rv]
    ELSE [cache |-> Append(c, [id |-> cardId, url |-> blobUrl]), rev |-> rv]

\* cacheSet evicting the newest entry instead of the oldest
cacheSetEvictNewest(c, rv, cardId, blobUrl) ==
    IF CacheHas(c, cardId)
    THEN [cache |-> c, rev |-> rv]
    ELSE LET c1 == Append(c, [id |-> cardId, url |-> blobUrl])
         IN  IF Len(c1) > MAX_CACHE
             THEN [cache |-> SubSeq(c1, 1, Len(c1) - 1),
                   rev   |-> Revoke(rv, c1[Len(c1)].url)]
             ELSE [cache |-> c1, rev |-> rv]

\* cacheSet(cardId, blobUrl): the cache and the revocations after the call
cacheSet(c, rv, cardId, blobUrl) ==
    IF CacheHas(c, cardId)
    THEN [cache |-> c, rev |-> rv]
    ELSE LET c1 == Append(c, [id |-> cardId, url |-> blobUrl])
         IN  IF Len(c1) > MAX_CACHE
             THEN [cache |-> Tail(c1), rev |-> Revoke(rv, Head(c1).url)]
             ELSE [cache |-> c1, rev |-> rv]

----------------------------------------------------------------------------
(* The prefetch pool: prefetchOneCard and warmPrefetch *)

\* A pending warmPrefetch call:
\*   st    "cand" while API.candidates is awaited, "run" while workers are
\*         pending, "done" / "rejected" once its promise is settled
\*   excl  excludeCardId
\*   list  the candidate list (after filter and slice)
\*   queue the shared work queue
\*   w     the workers launched, each [st, id]: awaiting API.cardsInfo ("info")
\*         or ttsFetchToBlobUrl ("tts") for card id, or returned ("end")
\*   log   history: every queue.shift(), [id, w, out], out the outcome of
\*         prefetchOneCard(id): "pending", "skip" (returned at once), "ok"
\*         (a blob URL was made) or "fail" (null result or exception)
NewWarm(excludeCardId) ==
    [st |-> "cand", excl |-> excludeCardId, list |-> <<>>, queue |-> <<>>,
     w |-> <<>>, log |-> <<>>]

\* the admission check with the in-flight set ignored
AdmittedCacheOnly(c, infl, cardId) == ~CacheHas(c, cardId)

\* prefetchOneCard's admission check: neither cached nor in flight
Admitted(c, infl, cardId) == ~(CacheHas(c, cardId) \/ cardId \in infl)

\* run(): worker i takes the head of the queue and calls prefetchOneCard(id),
\* which runs up to its first await.  ready: prefetchOneCard returned at once
\* (the id is cached or in flight), so the worker resumes in a microtask.
TakeNext(wc, i, infl, c) ==
    LET id   == Head(wc.queue)
        go   == Admitted(c, infl, id)
        slot == [st |-> IF go THEN "info" ELSE "skip", id |-> id]
        w1   == IF i > Len(wc.w) THEN Append(wc.w, slot) ELSE [wc.w EXCEPT ![i] = slot]
    IN  [wc    |-> [wc EXCEPT !.queue = Tail(wc.queue),
                              !.w = w1,
                              !.log = Append(wc.log,
                                  [id |-> id, w |-> i,
                                   out |-> IF go THEN "pending" ELSE "skip"])],
         infl  |-> IF go THEN infl \cup {id} ELSE infl,
         ready |-> ~go]

\* The microtask queue: the workers of `ready` resume in order.  Each runs its
\* while loop: with the queue empty it returns, else it takes the next id.
RECURSIVE Drain(_, _, _, _)
Drain(wc, ready, infl, c) ==
    IF ready = <<>>
    THEN [wc |-> wc, infl |-> infl]
    ELSE LET i == Head(ready)
         IN  IF wc.queue = <<>>
             THEN Drain([wc EXCEPT !.w[i].st = "end"], Tail(ready), infl, c)
             ELSE LET t == TakeNext(wc, i, infl, c)
                  IN  Drain(t.wc,
                            IF t.ready THEN Append(Tail(ready), i) ELSE Tail(ready),
                            t.infl, c)

\* for (let i = 0; i < Math.min(CONCURRENCY, queue.length); i++) workers.push(run()):
\* the bound is evaluated before every iteration, and each run() has shifted
\* the queue by the time it reaches its await.  Then the microtasks run.
RECURSIVE LaunchLoop(_, _, _, _, _)
LaunchLoop(wc, i, ready, infl, c) ==
    IF i < Min(CONCURRENCY, Len(wc.queue))
    THEN LET t == TakeNext(wc, i + 1, infl, c)
         IN  LaunchLoop(t.wc, i + 1,
                        IF t.ready THEN Append(ready, i + 1) ELSE ready, t.infl, c)
    ELSE Drain(wc, ready, infl, c)

\* cand.cardIds.filter((id) => id !== excludeCardId).slice(0, n)
CandidateList(cardIds, excludeCardId, n) ==
    LET f == SelectSeq(cardIds, LAMBDA id : id # excludeCardId)
    IN  SubSeq(f, 1, Min(n, Len(f)))

\* GET /api/candidates: the first `limit` due cards of the deck, in deck order;
\* the cards before position k have left the due list
CandidateResponses(n) ==
    {SubSeq([i \in 1..n |-> i], k, Min(n, k + CANDIDATE_LIMIT - 1)) : k \in 1..(n + 1)}

AllEnded(wc) == \A i \in 1..Len(wc.w) : wc.w[i].st = "end"

\* await Promise.all(workers): fulfilled once every worker has returned
Settle(wc) == IF wc.st = "run" /\ AllEnded(wc) THEN [wc EXCEPT !.st = "done"] ELSE wc

\* the log entry of worker i's pending prefetchOneCard closed with outcome out
CloseLog(log, i, out) ==
    [j \in 1..Len(log) |->
        IF log[j].w = i /\ log[j].out = "pending" THEN [log[j] EXCEPT !.out = out]
        ELSE log[j]]

\* a settled warmPrefetch promise whose reaction (the caller's .catch) has not run yet
Settling == \E k \in 1..Len(warms) : warms[k].st \in {"done", "rejected"}

\* the reaction to the settled promise of call k runs: nothing is left of the call
WarmSettle(k) ==
    /\ k \in 1..Len(warms)
    /\ warms[k].st \in {"done", "rejected"}
    /\ warms' = RemoveAt(warms, k)
    /\ UNCHANGED <<srv, stt, shows, mounted, audio, current, seq, loading, allowAutoplay, messages, ttsUrl, effect,
                   revoked, ttsCache, inflight, made, startPc, grades, speaks,
                   listen, sttLock, recState, presses, inserted>>

\* await API.candidates(deckName, 10) rejects: so does the call
CandidatesFail(k) ==
    /\ ~Settling
    /\ k \in 1..Len(warms)
    /\ warms[k].st = "cand"
    /\ warms' = [warms EXCEPT ![k].st = "rejected"]
    /\ UNCHANGED <<srv, stt, shows, mounted, audio, current, seq, loading, allowAutoplay, messages, ttsUrl, effect,
                   revoked, ttsCache, inflight, made, startPc, grades, speaks,
                   listen, sttLock, recState, presses, inserted>>

\* await API.candidates(deckName, 10) resolves: list, queue, the launch loop
CandidatesDone(k, cardIds) ==
    /\ ~Settling
    /\ k \in 1..Len(warms)
    /\ warms[k].st = "cand"
    /\ LET list == CandidateList(cardIds, warms[k].excl, PREFETCH_COUNT)
           wc0  == [warms[k] EXCEPT !.st = "run", !.list = list, !.queue = list]
           r    == LaunchLoop(wc0, 0, <<>>, inflight, ttsCache)
       IN  /\ warms' = [warms EXCEPT ![k] = Settle(r.wc)]
           /\ inflight' = r.infl
    /\ UNCHANGED <<srv, stt, shows, mounted, audio, current, seq, loading, allowAutoplay, messages, ttsUrl, effect,
                   revoked, ttsCache, made, startPc, grades, speaks,
                   listen, sttLock, recState, presses, inserted>>

\* prefetchOneCard ending with inflight.delete at the end of the try block
\* instead of in finally: a failing fetch leaves its id in inflight
PrefetchEndDeleteInTry(k, i, out, c) ==
    LET wc0 == [warms[k] EXCEPT !.log = CloseLog(@, i, out)]
        r   == Drain(wc0, <<i>>,
                     IF out = "ok" THEN inflight \ {warms[k].w[i].id} ELSE inflight, c)
    IN  /\ warms' = [warms EXCEPT ![k] = Settle(r.wc)]
        /\ inflight' = r.infl

\* prefetchOneCard without its catch: a failure ends the worker's loop
PrefetchEndStopOnFail(k, i, out, c) ==
    LET wc0 == [warms[k] EXCEPT !.log = CloseLog(@, i, out)]
        r   == IF out = "fail"
               THEN [wc |-> [wc0 EXCEPT !.w[i].st = "end"],
                     infl |-> inflight \ {warms[k].w[i].id}]
               ELSE Drain(wc0, <<i>>, inflight \ {warms[k].w[i].id}, c)
    IN  /\ warms' = [warms EXCEPT ![k] = Settle(r.wc)]
        /\ inflight' = r.infl

\* prefetchOneCard of worker i of call k ends with outcome out: the finally
\* block removes the id from inflight, then the worker resumes its loop
PrefetchEnd(k, i, out, c) ==
    LET wc0 == [warms[k] EXCEPT !.log = CloseLog(@, i, out)]
        r   == Drain(wc0, <<i>>, inflight \ {warms[k].w[i].id}, c)
    IN  /\ warms' = [warms EXCEPT ![k] = Settle(r.wc)]
        /\ inflight' = r.infl

\* await API.cardsInfo([cardId]) settles: "ok" with a speakable front, "empty"
\* with none (ttsFetchToBlobUrl returns null at once), "throw" on rejection
InfoDone(k, i, res) ==
    /\ ~Settling
    /\ k \in 1..Len(warms)
    /\ i \in 1..Len(warms[k].w)
    /\ warms[k].w[i].st = "info"
    /\ CASE res = "ok"    -> /\ warms' = [warms EXCEPT ![k].w[i].st = "tts"]
                             /\ UNCHANGED inflight
         [] res = "empty" -> PrefetchEnd(k, i, "fail", ttsCache)
         [] res = "throw" -> PrefetchEnd(k, i, "fail", ttsCache)
    /\ UNCHANGED <<srv, stt, shows, mounted, audio, current, seq, loading, allowAutoplay, messages, ttsUrl, effect,
                   revoked, ttsCache, made, startPc, grades, speaks,
                   listen, sttLock, recState, presses, inserted>>

\* the store of prefetchOneCard without its null check
PrefetchStoreAlways(c, rv, cardId, blobUrl) == cacheSet(c, rv, cardId, blobUrl)

\* if (blobUrl) cacheSet(cardId, blobUrl)
PrefetchStore(c, rv, cardId, blobUrl) ==
    IF blobUrl # NoUrl THEN cacheSet(c, rv, cardId, blobUrl)
    ELSE [cache |-> c, rev |-> rv]

\* await ttsFetchToBlobUrl(speakable) settles: with a new blob URL ("ok"), with
\* null because API.tts answered none ("null"), or API.tts, fetch or
\* arrayBuffer rejects ("throw")
TtsDone(k, i, res) ==
    /\ ~Settling
    /\ k \in 1..Len(warms)
    /\ i \in 1..Len(warms[k].w)
    /\ warms[k].w[i].st = "tts"
    /\ LET id == warms[k].w[i].id
           r  == IF res = "throw" THEN [cache |-> ttsCache, rev |-> revoked]
                 ELSE PrefetchStore(ttsCache, revoked, id,
                                    IF res = "ok" THEN NewUrl(id) ELSE NoUrl)
       IN  /\ ttsCache' = r.cache
           /\ revoked' = r.rev
           /\ made' = IF res = "ok" THEN Bump(made, id) ELSE made
           /\ PrefetchEnd(k, i, IF res = "ok" THEN "ok" ELSE "fail", r.cache)
    /\ UNCHANGED <<srv, stt, shows, mounted, audio, current, seq, loading, allowAutoplay, messages, ttsUrl, effect,
                   startPc, grades, speaks, listen, sttLock, recState, presses,
                   inserted>>

----------------------------------------------------------------------------
(* SpeechOnce (stt.ts): the recorder object.  Energies are in hundredths
   (rmsThreshold 0.02 is 2), times in milliseconds. *)

RMS_THRESHOLD == 2
START_FRAMES == 4
END_FRAMES == 60
MAX_UTTERANCE_MS == 60000
FINALIZE_MS == 150
TIMESLICE_MS == 250
\* the interval of requestAnimationFrame callbacks on a 60 Hz display
RAF_MS == 16

\* the options the App constructs its SpeechOnce with, defaults filled in
AppOpts ==
    [rmsThreshold   |-> RMS_THRESHOLD,
     startFrames    |-> START_FRAMES,
     endFrames      |-> END_FRAMES,
     maxUtteranceMs |-> MAX_UTTERANCE_MS]

\* The recordOneUtterance invocation:
\*   st       "none" before any, "pending", "settled" once its promise is
\*   raf      requestAnimationFrame(tick) is scheduled
\*   timers   finalize timers (setTimeout 150) scheduled and not yet run
\*   speakingFrames, silenceFrames, recording, startedAt: the locals
\*   blob, frames, doneAt: the value resolved (blob FALSE: null) and when
\*   hist     history: the energies polled, one per tick
\*   captured history: the frames the media recorder captured
\*   resolved, started, finals: history: resolve() calls, _rec.start() calls,
\*            finalize timers scheduled
\*   cause    history: the stop conditions detected, in order
\*   cbs      history: the callbacks invoked
\*   stopSeen history: stop() was invoked while the promise was pending
\*   threw    history: a finalize callback threw (this._rec is null)
NoCall ==
    [st |-> "none", raf |-> FALSE, timers |-> 0,
     speakingFrames |-> 0, silenceFrames |-> 0, recording |-> FALSE, startedAt |-> 0,
     blob |-> FALSE, frames |-> <<>>, doneAt |-> 0,
     hist |-> <<>>, captured |-> <<>>, resolved |-> 0, started |-> 0, finals |-> 0,
     cause |-> <<>>, cbs |-> <<>>, stopSeen |-> FALSE, threw |-> FALSE]

\* new SpeechOnce(opts), in a browser whose animation frames are rafMs apart:
\*   running, stream, analyser, rec: _running and whether _stream, _analyser,
\*            _rec are set (non-null)
\*   ac       _ac: "none", an "open" or a "closed" AudioContext
\*   tracks   the audio tracks of the stream: "none", "live", "ended"
\*   chunks   _chunks, each chunk the frames it holds
\*   mr       the MediaRecorder's state, buf the frames it has gathered and not
\*            delivered yet, ops (history) the methods called on it
\*   startPc, stopPc: where the pending start() / stop() is
\*   now      performance.now(), polled the frames polled so far (frames are
\*            numbered 1, 2, ... in the order they are polled)
\*   calls, stops: recordOneUtterance and stop calls so far
SpeechOnce(opts, rafMs) ==
    [opts |-> opts, rafMs |-> rafMs,
     running |-> FALSE, ac |-> "none", stream |-> FALSE, analyser |-> FALSE,
     rec |-> FALSE, tracks |-> "none", chunks |-> <<>>,
     mr |-> "none", buf |-> <<>>, ops |-> <<>>,
     startPc |-> "none", stopPc |-> "idle",
     now |-> 0, polled |-> 0, call |-> NoCall, calls |-> 0, stops |-> 0]

RECURSIVE Flatten(_)
Flatten(ss) == IF ss = <<>> THEN <<>> ELSE Head(ss) \o Flatten(Tail(ss))

\* resolve(value): only the first call settles the promise
resolve(s, blob, frames) ==
    IF s.call.st = "pending"
    THEN [s EXCEPT !.call.st = "settled", !.call.blob = blob, !.call.frames = frames,
                   !.call.doneAt = s.now, !.call.resolved = @ + 1]
    ELSE [s EXCEPT !.call.resolved = @ + 1]

\* the speech count that a frame at or below the threshold does not reset
SpeakingCountNoReset(energy, rmsThreshold, speakingFrames) ==
    IF energy > rmsThreshold THEN speakingFrames + 1 ELSE speakingFrames

\* speakingFrames = energy > rmsThreshold ? speakingFrames + 1 : 0
SpeakingCount(energy, rmsThreshold, speakingFrames) ==
    IF energy > rmsThreshold THEN speakingFrames + 1 ELSE 0

\* the silence count that an above-threshold frame does not reset
SilenceCountNoReset(energy, rmsThreshold, silenceFrames) ==
    IF energy <= rmsThreshold THEN silenceFrames + 1 ELSE silenceFrames

\* silenceFrames = energy <= rmsThreshold ? silenceFrames + 1 : 0
SilenceCount(energy, rmsThreshold, silenceFrames) ==
    IF energy <= rmsThreshold THEN silenceFrames + 1 ELSE 0

\* the two calls in the opposite order
StopOpsReversed == <<"stop", "requestData">>

\* try { this._rec!.requestData(); } catch {}  try { this._rec!.stop(); } catch {}
StopOps == <<"requestData", "stop">>

\* a stop condition (why) is detected: flush, stop, setTimeout(finalize, 150).
\* On an inactive recorder both calls throw and are caught.
StopCapture(s, why) ==
    [s EXCEPT !.ops = @ \o StopOps,
              !.mr = IF @ = "recording" THEN "inactive" ELSE @,
              !.call.timers = @ + 1,
              !.call.finals = @ + 1,
              !.call.cause = Append(@, why)]

\* the silence branch falling through to the max-duration check
FallThroughAfterSilenceStop == FALSE

\* return;  (after the silence stop was scheduled)
ReturnAfterSilenceStop == TRUE

\* tick without its max-duration check: requestAnimationFrame(tick) always
MaxCheckNever(s) ==
    [s EXCEPT !.call.raf = TRUE]

\* if (performance.now() - startedAt > maxUtteranceMs) { ...; return; }
\* requestAnimationFrame(tick);
MaxCheck(s) ==
    IF s.now - s.call.startedAt > s.opts.maxUtteranceMs
    THEN StopCapture(s, "max")
    ELSE [s EXCEPT !.call.raf = TRUE]

\* getByteTimeDomainData: the frame is polled; a recording MediaRecorder has
\* gathered it
Poll(s, energy) ==
    LET n == s.polled + 1
    IN  [s EXCEPT !.polled = n,
                  !.call.hist = Append(@, energy),
                  !.buf = IF s.mr = "recording" THEN Append(@, n) ELSE @,
                  !.call.captured = IF s.mr = "recording" THEN Append(@, n) ELSE @]

\* tick(), rafMs after it was scheduled, polling `energy`
tick(s, energy) ==
    LET s0 == [s EXCEPT !.now = @ + s.rafMs, !.call.raf = FALSE]
    IN  IF ~s0.running \/ ~s0.analyser
        THEN resolve(s0, FALSE, <<>>)
        ELSE LET s1 == Poll(s0, energy)
             IN  IF ~s1.call.recording
                 THEN LET sp == SpeakingCount(energy, s1.opts.rmsThreshold,
                                              s1.call.speakingFrames)
                          s2 == [s1 EXCEPT !.call.speakingFrames = sp]
                          s3 == IF sp >= s1.opts.startFrames
                                THEN [s2 EXCEPT
                                        !.ops = Append(@, "start"),
                                        !.mr = IF @ = "inactive" THEN "recording" ELSE @,
                                        !.call.started = @ + 1,
                                        !.call.recording = TRUE,
                                        !.call.silenceFrames = 0,
                                        !.call.cbs = Append(@, "onStartRecording")]
                                ELSE s2
                      IN  MaxCheck(s3)
                 ELSE LET si == SilenceCount(energy, s1.opts.rmsThreshold,
                                             s1.call.silenceFrames)
                          s2 == [s1 EXCEPT !.call.silenceFrames = si]
                      IN  IF si >= s1.opts.endFrames
                          THEN IF ReturnAfterSilenceStop
                               THEN StopCapture(s2, "silence")
                               ELSE MaxCheck(StopCapture(s2, "silence"))
                          ELSE MaxCheck(s2)

\* the finalize callback of setTimeout(..., 150): this._rec!.mimeType throws
\* when stop() has cleared _rec, and then nothing resolves the promise
finalize(s) ==
    LET s0 == [s EXCEPT !.now = @ + FINALIZE_MS, !.call.timers = @ - 1]
    IN  IF ~s0.rec
        THEN [s0 EXCEPT !.call.threw = TRUE]
        ELSE resolve([s0 EXCEPT !.call.cbs = Append(@, "onStopRecording")],
                     s0.chunks # <<>>, Flatten(s0.chunks))

\* stop() with only _rec cleared after the close
StopClearsRecOnly(s) ==
    [s EXCEPT !.rec = FALSE]

\* this._stream = null; this._analyser = null; this._rec = null;
StopClears(s) ==
    [s EXCEPT !.stream = FALSE, !.analyser = FALSE, !.rec = FALSE]

\* start() up to await getUserMedia: new AudioContext
startCall(s) ==
    [s EXCEPT !.startPc = "pending", !.ac = "open"]

\* start() with _running = true set before the acquisition
startSettledRunning(s, res) ==
    CASE res = "denied" ->
             [s EXCEPT !.startPc = "failed", !.running = TRUE]
        [] res = "norecorder" ->
             [s EXCEPT !.startPc = "failed", !.stream = TRUE,
                       !.tracks = "live", !.analyser = TRUE, !.running = TRUE]
        [] res = "ok" ->
             [s EXCEPT !.startPc = "done", !.stream = TRUE,
                       !.tracks = "live", !.analyser = TRUE,
                       !.rec = TRUE, !.mr = "inactive", !.running = TRUE]

\* start() with the MediaRecorder recording as soon as it is constructed
startSettledRecording(s, res) ==
    CASE res = "denied" ->
             [s EXCEPT !.startPc = "failed"]
        [] res = "norecorder" ->
             [s EXCEPT !.startPc = "failed", !.stream = TRUE,
                       !.tracks = "live", !.analyser = TRUE]
        [] res = "ok" ->
             [s EXCEPT !.startPc = "done", !.stream = TRUE,
                       !.tracks = "live", !.analyser = TRUE,
                       !.rec = TRUE, !.mr = "recording", !.ops = Append(@, "start"),
                       !.running = TRUE]

\* start() after await getUserMedia: rejected ("denied": start rejects, the
\* object is left as it was); resolved but no MediaRecorder can be
\* constructed ("norecorder": start rejects with _stream and _analyser set);
\* or resolved and start runs to its end ("ok": _running = true, the
\* MediaRecorder constructed and inactive)
startSettled(s, res) ==
    CASE res = "denied" ->
             [s EXCEPT !.startPc = "failed"]
        [] res = "norecorder" ->
             [s EXCEPT !.startPc = "failed", !.stream = TRUE,
                       !.tracks = "live", !.analyser = TRUE]
        [] res = "ok" ->
             [s EXCEPT !.startPc = "done", !.stream = TRUE,
                       !.tracks = "live", !.analyser = TRUE,
                       !.rec = TRUE, !.mr = "inactive", !.running = TRUE]

\* stop() up to await this._ac?.close(): _running = false, the tracks are
\* stopped, which ends a recording
stopCall(s) ==
    [s EXCEPT !.stops = @ + 1,
              !.stopPc = "closing",
              !.running = FALSE,
              !.tracks = IF s.stream THEN "ended" ELSE @,
              !.mr = IF s.stream /\ @ = "recording" THEN "inactive" ELSE @,
              !.call.stopSeen = @ \/ s.call.st = "pending"]

\* stop() after await this._ac?.close() (a rejection is caught): the
\* references are cleared and stop() returns
stopSettled(s) ==
    StopClears([s EXCEPT !.stopPc = "idle",
                         !.ac = IF @ = "open" THEN "closed" ELSE @])

\* await stt.stop() on a recorder no one else holds, from call to return
stopped(s) == stopSettled(stopCall(s))

----------------------------------------------------------------------------
(* The server's POST /api/answer (server/index.js) *)

\* Number(x) of a value that has no numeric reading
NaN == -1000

\* the JSON values of req.body.ease: numbers, strings, booleans, null, an
\* array of one number, and no ease field at all ("undefined")
JsonNumbers == [t : {"number"}, v : 0..5]
JsonStrings == [t : {"string"}, v : {"3", " 4 ", "5", "", "good"}]
JsonOthers ==
    {[t |-> "boolean", v |-> TRUE], [t |-> "boolean", v |-> FALSE],
     [t |-> "null", v |-> 0], [t |-> "array", v |-> 2], [t |-> "undefined", v |-> 0]}
EaseValues == JsonNumbers \cup JsonStrings \cup JsonOthers

\* Number(string): the decimal the trimmed string spells, 0 for the empty
\* string, NaN otherwise
StringToNumber(str) ==
    CASE str = "3" -> 3
      [] str = " 4 " -> 4
      [] str = "5" -> 5
      [] str = "" -> 0
      [] OTHER -> NaN

\* const n = Number(ease)
Number(x) ==
    CASE x.t = "number"    -> x.v
      [] x.t = "string"    -> StringToNumber(x.v)
      [] x.t = "boolean"   -> IF x.v THEN 1 ELSE 0
      [] x.t = "null"      -> 0
      [] x.t = "array"     -> x.v
      [] x.t = "undefined" -> NaN

\* [1, 2, 3, 4].includes(n)
ValidEase(n) == n \in {1, 2, 3, 4}

\* ankiInvoke(action, params, { retries = 2 })
ANKI_RETRIES == 2

\* Error messages, as their sequences of words; NoError stands for success.
NoError == <<>>

\* the messages an attempt of ankiInvoke can fail with: the two thrown by
\* ankiInvoke itself (HTTP status, AnkiConnect's error field) and those of
\* fetch (connection reset, socket closed by the peer, request timed out);
\* AnkiConnect's error field is any text
ErrorMessages ==
    {<<"AnkiConnect", "HTTP", "500">>,
     <<"AnkiConnect:", "collection", "is", "not", "available">>,
     <<"socket", "hang", "up">>,
     <<"read", "ECONNRESET">>,
     <<"request", "to", "anki", "failed,", "reason:", "socket", "closed">>,
     <<"The", "operation", "was", "aborted", "due", "to", "timeout">>}

\* a settled ankiInvoke call:
\*   atts    how each of its attempts ended, in order: NoError for a
\*           success, else the error's message
\*   end     "returned" or "threw" ("none": no call yet)
\*   result  the attempt whose json.result it returned (0 if it threw)
\*   err     the message of the error it threw (NoError if it returned)
NoInvoke == [atts |-> <<>>, end |-> "none", result |-> 0, err |-> NoError]

\* msg.includes(part), on words
Includes(msg, part) ==
    \E i \in 0..(Len(msg) - Len(part)) : SubSeq(msg, i + 1, i + Len(part)) = part

\* a retry for every error
RetryableAlways(msg) == TRUE

\* msg.includes("socket hang up") || msg.includes("ECONNRESET") ||
\* msg.includes("timeout")
Retryable(msg) ==
    \/ Includes(msg, <<"socket", "hang", "up">>)
    \/ Includes(msg, <<"ECONNRESET">>)
    \/ Includes(msg, <<"timeout">>)

\* the handler between requests:
\*   pc       "idle", or the ankiInvoke awaited: "guiShowAnswer",
\*            "guiAnswerCard", "guiShowQuestion"
\*   ease, n  req.body.ease and Number(ease) of the request served
\*   retries  the retries left to the pending ankiInvoke
\*   calls    history: the requests sent to AnkiConnect for this request and
\*            how each ended ("pending", "ok", "error", "timeout")
\*   status   the response sent: 0 (none yet), 200, 400 or 500
\*   served   requests served so far
\*   atts     history: how each attempt of the pending ankiInvoke call
\*            ended so far, by the error's message
\*   done     history: the ankiInvoke call that settled last (NoInvoke if
\*            none did)
NoRequest ==
    [pc |-> "idle", ease |-> [t |-> "undefined", v |-> 0], n |-> NaN,
     retries |-> 0, calls |-> <<>>, status |-> 0, served |-> 0,
     atts |-> <<>>, done |-> NoInvoke]

\* ankiInvoke(action) is called: the request is sent
Invoke(h, action) ==
    [h EXCEPT !.pc = action, !.retries = ANKI_RETRIES,
              !.calls = Append(@, [action |-> action, out |-> "pending"]),
              !.atts = <<>>]

\* the pending request to AnkiConnect ends with out
Close(h, out) ==
    [h EXCEPT !.calls[Len(h.calls)].out = out]

\* res.json(...) / res.status(code).json(...): the handler is done
Respond(h, code) ==
    [h EXCEPT !.pc = "idle", !.status = code]

\* the handler with the reveal required: a failed guiShowAnswer is answered
\* with 500
AfterRevealStrict(h, ok) ==
    IF ok THEN Invoke(h, "guiAnswerCard") ELSE Respond(h, 500)

\* try { await ankiInvoke("guiShowAnswer"); await sleep(120) } catch (_) {}
\* await ankiInvoke("guiAnswerCard", { ease: n })
AfterReveal(h, ok) ==
    Invoke(h, "guiAnswerCard")

\* the handler continues after its ankiInvoke has resolved (ok) or thrown
Continue(h, ok) ==
    CASE h.pc = "guiShowAnswer"   -> AfterReveal(h, ok)
      [] h.pc = "guiAnswerCard"   -> IF ok THEN Invoke(h, "guiShowQuestion")
                                           ELSE Respond(h, 500)
      [] h.pc = "guiShowQuestion" -> Respond(h, 200)

----------------------------------------------------------------------------
(* The state after the component is constructed and mounted *)

Idle == [pc |-> "idle", seq0 |-> 0, snap |-> Null]

\* the audio element before anything was played: audio.url is the source
\* whose playback was started last, audio.st that playback's state
\* ("playing", "paused", "ended")
NoPlayback == [url |-> NoUrl, st |-> "none"]

StartIdle == [pc |-> "idle", cur |-> Null]

\* the App component after it is constructed and mounted
InitApp ==
    /\ current = Null
    /\ seq = 0
    /\ loading = FALSE
    /\ allowAutoplay = FALSE
    /\ messages = <<>>
    /\ ttsUrl = NoUrl
    /\ effect = [url |-> NoUrl, auto |-> FALSE]
    /\ revoked = <<>>
    /\ ttsCache = <<>>
    /\ inflight = {}
    /\ made = <<>>
    /\ startPc = StartIdle
    /\ grades = [answer |-> 0, fetch |-> 0]
    /\ speaks = <<>>
    /\ warms = <<>>
    /\ listen = Idle
    /\ sttLock = FALSE
    /\ recState = "idle"
    /\ presses = <<>>
    /\ inserted = <<>>
    /\ shows = [pending |-> 0, done |-> 0]
    /\ mounted = TRUE
    /\ audio = NoPlayback

Init ==
    /\ InitApp
    /\ srv = NoRequest
    /\ stt = SpeechOnce(AppOpts, RAF_MS)

----------------------------------------------------------------------------
(* Playback: the autoplay effect *)

\* useEffect(..., [ttsUrl, allowAutoplay]) after a render that changed a
\* dependency: the cleanup of the previous run revokes the URL it ran with
\* (a run with no ttsUrl returned no cleanup), then the effect runs again.
AutoplayEffect ==
    /\ ~Settling
    /\ effect # [url |-> ttsUrl, auto |-> allowAutoplay]
    /\ revoked' = IF effect.url # NoUrl THEN Revoke(revoked, effect.url) ELSE revoked
    /\ effect' = [url |-> ttsUrl, auto |-> allowAutoplay]
    /\ UNCHANGED <<srv, stt, shows, mounted, audio, current, seq, loading, allowAutoplay, messages, ttsUrl,
                   ttsCache, inflight, made, startPc, grades, speaks, warms,
                   listen, sttLock, recState, presses, inserted>>

----------------------------------------------------------------------------
(* ttsSpeakCardFront *)

\* a lookup that moves the entry it hits to the most recent position
LookupTouch(cardId) ==
    /\ ttsCache' = IF CacheHas(ttsCache, cardId)
                   THEN SelectSeq(ttsCache, LAMBDA e : e.id # cardId)
                        \o <<[id |-> cardId, url |-> CacheGet(ttsCache, cardId)]>>
                   ELSE ttsCache
    /\ ttsUrl' = IF CacheHas(ttsCache, cardId) THEN CacheGet(ttsCache, cardId) ELSE ttsUrl
    /\ UNCHANGED <<revoked, inflight, made>>

\* const cached = ttsCache.current.get(snap.cardId); if (cached) setTtsUrl(cached)
Lookup(cardId) ==
    /\ ttsUrl' = IF CacheHas(ttsCache, cardId) THEN CacheGet(ttsCache, cardId) ELSE ttsUrl
    /\ UNCHANGED <<ttsCache, revoked, inflight, made>>

\* ttsSpeakCardFront(cur) up to its first await, called by `by`: on a hit the
\* cached URL is selected and warmPrefetch is started (the function returns);
\* on a miss ttsFetchToBlobUrl is awaited.
SpeakBegin(cardId, by) ==
    /\ Lookup(cardId)
    /\ IF CacheHas(ttsCache, cardId)
       THEN /\ warms' = Append(warms, NewWarm(cardId))
            /\ UNCHANGED speaks
       ELSE /\ speaks' = Append(speaks, [card |-> cardId, by |-> by])
            /\ UNCHANGED warms

\* if (blobUrl) { cacheSet(snap.cardId, blobUrl); setTtsUrl(blobUrl); }
SpeakApply(cardId, blobUrl) ==
    LET r == cacheSet(ttsCache, revoked, cardId, blobUrl)
    IN  /\ ttsCache' = r.cache
        /\ revoked' = r.rev
        /\ ttsUrl' = blobUrl

\* await ttsFetchToBlobUrl(speakable) of pending call s settles: with a new
\* blob URL ("ok"), with null ("null"), or by rejection ("throw", which
\* rejects ttsSpeakCardFront and its caller).  Then warmPrefetch is started
\* and the caller resumes: handleStart resets loading, grade returns.
SpeakDone(s, res) ==
    /\ ~Settling
    /\ s \in 1..Len(speaks)
    /\ LET id == speaks[s].card
       IN  /\ IF res = "ok"
              THEN /\ SpeakApply(id, NewUrl(id))
                   /\ made' = Bump(made, id)
              ELSE UNCHANGED <<ttsCache, revoked, ttsUrl, made>>
           /\ warms' = IF res = "throw" THEN warms ELSE Append(warms, NewWarm(id))
    /\ speaks' = RemoveAt(speaks, s)
    /\ IF speaks[s].by = "start"
       THEN /\ startPc' = StartIdle
            /\ loading' = IF res = "throw" THEN loading ELSE FALSE
       ELSE UNCHANGED <<startPc, loading>>
    /\ UNCHANGED <<srv, stt, shows, mounted, audio, current, seq, allowAutoplay, messages, effect, inflight, grades,
                   listen, sttLock, recState, presses, inserted>>

----------------------------------------------------------------------------
(* handleStart and grade *)

\* currentSeqRef.current += 2
advanceTwice(n) == n + 2

\* currentSeqRef.current += 1
advance(n) == n + 1

\* item transitions done or still to come from the pending calls
Advances ==
    seq + grades.answer + grades.fetch
        + (IF startPc.pc \in {"start", "current"} THEN 1 ELSE 0)

\* showBack() calls per run
MaxShows == 1

\* Start Review is pressed (the button is disabled while loading; a deck is
\* selected): up to await API.start(deck)
StartClick ==
    /\ ~Settling
    /\ ~loading
    /\ startPc.pc = "idle"
    /\ Advances < MaxSeq
    /\ allowAutoplay' = TRUE
    /\ loading' = TRUE
    /\ messages' = <<>>
    /\ startPc' = [pc |-> "start", cur |-> Null]
    /\ UNCHANGED <<srv, stt, shows, mounted, audio, current, seq, ttsUrl, effect, revoked, ttsCache, inflight, made,
                   grades, speaks, warms, listen, sttLock, recState, presses,
                   inserted>>

\* await API.start(deck) settles: "empty" (no cards), "error", "ok", or the
\* request rejects ("throw": handleStart rejects, loading is left as it is)
StartDone(res) ==
    /\ ~Settling
    /\ startPc.pc = "start"
    /\ CASE res = "empty" -> /\ messages' = Append(messages, "nocards")
                             /\ loading' = FALSE
                             /\ startPc' = StartIdle
         [] res = "error" -> /\ messages' = Append(messages, "starterror")
                             /\ loading' = FALSE
                             /\ startPc' = StartIdle
         [] res = "ok"    -> /\ startPc' = [pc |-> "current", cur |-> Null]
                             /\ UNCHANGED <<messages, loading>>
         [] res = "throw" -> /\ startPc' = StartIdle
                             /\ UNCHANGED <<messages, loading>>
    /\ UNCHANGED <<srv, stt, shows, mounted, audio, current, seq, allowAutoplay, ttsUrl, effect, revoked, ttsCache,
                   inflight, made, grades, speaks, warms, listen, sttLock, recState,
                   presses, inserted>>

\* await API.current() rejects: handleStart rejects
StartCurrentFail ==
    /\ ~Settling
    /\ startPc.pc = "current"
    /\ startPc' = StartIdle
    /\ UNCHANGED <<srv, stt, shows, mounted, audio, current, seq, loading, allowAutoplay, messages, ttsUrl, effect,
                   revoked, ttsCache, inflight, made, grades, speaks, warms, listen,
                   sttLock, recState, presses, inserted>>

\* await API.current() resolves with cur (a card, or EmptyCard: empty or no
\* front): setCurrent(cur); currentSeqRef.current += 1; then either
\* "Reviewer not active." or the front and await API.show("front", deck)
StartCurrent(cur) ==
    /\ ~Settling
    /\ startPc.pc = "current"
    /\ current' = cur
    /\ seq' = advance(seq)
    /\ IF cur = EmptyCard
       THEN /\ messages' = Append(messages, "inactive")
            /\ loading' = FALSE
            /\ startPc' = StartIdle
       ELSE /\ messages' = Append(messages, "front")
            /\ startPc' = [pc |-> "show", cur |-> cur]
            /\ UNCHANGED loading
    /\ UNCHANGED <<srv, stt, shows, mounted, audio, allowAutoplay, ttsUrl, effect, revoked, ttsCache, inflight, made,
                   grades, speaks, warms, listen, sttLock, recState, presses,
                   inserted>>

\* await API.show("front", deck).catch(() => {}) settles: ttsSpeakCardFront(cur);
\* on a cache hit it returns at once and loading is reset
StartShow ==
    /\ ~Settling
    /\ startPc.pc = "show"
    /\ SpeakBegin(startPc.cur, "start")
    /\ IF CacheHas(ttsCache, startPc.cur)
       THEN /\ startPc' = StartIdle
            /\ loading' = FALSE
       ELSE /\ startPc' = [pc |-> "speak", cur |-> startPc.cur]
            /\ UNCHANGED loading
    /\ UNCHANGED <<srv, stt, shows, mounted, audio, current, seq, allowAutoplay, messages, effect, grades, listen,
                   sttLock, recState, presses, inserted>>

\* grade() refusing to run until the back of the card has been shown
GradeClickAfterBack ==
    /\ ~Settling
    /\ current # Null
    /\ shows.done > 0
    /\ Advances < MaxSeq
    /\ allowAutoplay' = TRUE
    /\ grades' = [grades EXCEPT !.answer = @ + 1]
    /\ UNCHANGED <<srv, stt, shows, mounted, audio, current, seq, loading, messages, ttsUrl, effect, revoked,
                   ttsCache, inflight, made, startPc, speaks, warms, listen,
                   sttLock, recState, presses, inserted>>

\* a grade button is pressed (enabled whenever current is set): up to
\* await API.answer(ease)
GradeClick ==
    /\ ~Settling
    /\ current # Null
    /\ Advances < MaxSeq
    /\ allowAutoplay' = TRUE
    /\ grades' = [grades EXCEPT !.answer = @ + 1]
    /\ UNCHANGED <<srv, stt, shows, mounted, audio, current, seq, loading, messages, ttsUrl, effect, revoked,
                   ttsCache, inflight, made, startPc, speaks, warms, listen,
                   sttLock, recState, presses, inserted>>

\* await API.answer(ease) settles: resolved (then API.show and API.current are
\* awaited) or rejected (grade rejects)
GradeAnswered(ok) ==
    /\ ~Settling
    /\ grades.answer > 0
    /\ grades' = [answer |-> grades.answer - 1,
                  fetch  |-> IF ok THEN grades.fetch + 1 ELSE grades.fetch]
    /\ UNCHANGED <<srv, stt, shows, mounted, audio, current, seq, loading, allowAutoplay, messages, ttsUrl, effect,
                   revoked, ttsCache, inflight, made, startPc, speaks, warms, listen,
                   sttLock, recState, presses, inserted>>

\* await API.current() rejects: grade rejects
GradeNextFail ==
    /\ ~Settling
    /\ grades.fetch > 0
    /\ grades' = [grades EXCEPT !.fetch = @ - 1]
    /\ UNCHANGED <<srv, stt, shows, mounted, audio, current, seq, loading, allowAutoplay, messages, ttsUrl, effect,
                   revoked, ttsCache, inflight, made, startPc, speaks, warms, listen,
                   sttLock, recState, presses, inserted>>

\* await API.current() resolves with next: setCurrent(next);
\* currentSeqRef.current += 1; then "Session finished" or the front and
\* ttsSpeakCardFront(next)
GradeNext(next) ==
    /\ ~Settling
    /\ grades.fetch > 0
    /\ grades' = [grades EXCEPT !.fetch = @ - 1]
    /\ current' = next
    /\ seq' = advance(seq)
    /\ IF next = EmptyCard
       THEN /\ messages' = Append(messages, "finished")
            /\ UNCHANGED <<ttsUrl, ttsCache, revoked, inflight, made, speaks, warms>>
       ELSE /\ messages' = Append(messages, "front")
            /\ SpeakBegin(next, "grade")
    /\ UNCHANGED <<srv, stt, shows, mounted, audio, loading, allowAutoplay, effect, startPc, listen, sttLock,
                   recState, presses, inserted>>

\* Show Back is pressed (enabled when current is a card with a back):
\* up to await API.show("back", deck)
ShowBackClick ==
    /\ ~Settling
    /\ current \in Cards
    /\ shows.pending + shows.done < MaxShows
    /\ shows' = [shows EXCEPT !.pending = @ + 1]
    /\ UNCHANGED <<srv, stt, mounted, audio, current, seq, loading, allowAutoplay, messages, ttsUrl, effect,
                   revoked, ttsCache, inflight, made, startPc, grades, speaks, warms,
                   listen, sttLock, recState, presses, inserted>>

\* await API.show("back", deck).catch(() => {}) settles: the back of the
\* card the handler was rendered with is appended to the chat
ShowBackDone ==
    /\ ~Settling
    /\ shows.pending > 0
    /\ shows' = [pending |-> shows.pending - 1, done |-> shows.done + 1]
    /\ messages' = Append(messages, "back")
    /\ UNCHANGED <<srv, stt, mounted, audio, current, seq, loading, allowAutoplay, ttsUrl, effect,
                   revoked, ttsCache, inflight, made, startPc, grades, speaks, warms,
                   listen, sttLock, recState, presses, inserted>>

----------------------------------------------------------------------------
(* The Record button and startListeningForAnswer *)

\* the click handler with its lock test removed
LockIgnored == TRUE

\* if (!sttLockRef.current)
LockFree == ~sttLock

\* startListeningForAnswer with its first line removed
FreshAtEntry(seqAtStart) == FALSE

\* if (seqAtStart !== currentSeqRef.current) return;  (first line)
StaleAtEntry(seqAtStart) == seqAtStart # seq

\* the onClick handler of Record answer, seqAtStart read: with the lock free
\* it is taken and startListeningForAnswer(mode, current, seqAtStart) runs,
\* returning at once when stale (the handler's finally then releases the
\* lock in the same task), else constructing its SpeechOnce and running up
\* to await waitForPlaybackToFinish(); with the lock held nothing happens
Press(seqAtStart) ==
    /\ presses' = Append(presses, CASE ~LockFree -> "held"
                                     [] StaleAtEntry(seqAtStart) -> "stale"
                                     [] OTHER -> "started")
    /\ IF LockFree /\ ~StaleAtEntry(seqAtStart)
       THEN /\ sttLock' = TRUE
            /\ listen' = [pc |-> "playback", seq0 |-> seqAtStart, snap |-> current]
            /\ stt' = SpeechOnce(AppOpts, RAF_MS)
       ELSE UNCHANGED <<sttLock, listen, stt>>
    /\ UNCHANGED <<srv, shows, mounted, audio, current, seq, loading, allowAutoplay, messages, ttsUrl, effect,
                   revoked, ttsCache, inflight, made, startPc, grades, speaks, warms,
                   recState, inserted>>

\* Record answer is pressed (enabled whenever current is set):
\* const seqAtStart = currentSeqRef.current
RecordClick ==
    /\ ~Settling
    /\ current # Null
    /\ Len(presses) < MaxListens
    /\ Press(seq)

\* await waitForPlaybackToFinish() resolves: stt.start() is called and awaited
PlaybackEnded ==
    /\ ~Settling
    /\ listen.pc = "playback"
    /\ listen' = [listen EXCEPT !.pc = "mic"]
    /\ stt' = startCall(stt)
    /\ UNCHANGED <<srv, shows, mounted, audio, current, seq, loading, allowAutoplay, messages, ttsUrl, effect,
                   revoked, ttsCache, inflight, made, startPc, grades, speaks, warms,
                   sttLock, recState, presses, inserted>>

\* await stt.start() settles: the microphone is open ("ok": recState
\* "listening", recordOneUtterance is awaited), or start rejected (catch,
\* finally) because the acquisition failed ("denied") or because it
\* succeeded and no MediaRecorder could be constructed ("norecorder")
MicDone(res) ==
    /\ ~Settling
    /\ listen.pc = "mic"
    /\ recState' = IF res = "ok" THEN "listening" ELSE "idle"
    /\ listen' = [listen EXCEPT !.pc = IF res = "ok" THEN "record" ELSE "finally"]
    /\ stt' = startSettled(stt, res)
    /\ UNCHANGED <<srv, shows, mounted, audio, current, seq, loading, allowAutoplay, messages, ttsUrl, effect,
                   revoked, ttsCache, inflight, made, startPc, grades, speaks, warms,
                   sttLock, presses, inserted>>

\* onStartRecording: () => setRecState("recording")
OnStartRecording ==
    /\ ~Settling
    /\ listen.pc = "record"
    /\ recState = "listening"
    /\ recState' = "recording"
    /\ UNCHANGED <<srv, stt, shows, mounted, audio, current, seq, loading, allowAutoplay, messages, ttsUrl, effect,
                   revoked, ttsCache, inflight, made, startPc, grades, speaks, warms,
                   listen, sttLock, presses, inserted>>

\* await stt.recordOneUtterance() resolves with a blob (after a recording) or
\* with null: setRecState("idle"), then stt.stop() and, with a blob,
\* SpeechOnce.blobToDataURL(blob) are awaited (the recorder is local to the
\* call: its stop() is taken from call to return)
RecordDone(blob) ==
    /\ ~Settling
    /\ listen.pc = "record"
    /\ blob => recState = "recording"
    /\ recState' = "idle"
    /\ listen' = [listen EXCEPT !.pc = IF blob THEN "encode" ELSE "finally"]
    /\ stt' = stopped(stt)
    /\ UNCHANGED <<srv, shows, mounted, audio, current, seq, loading, allowAutoplay, messages, ttsUrl, effect,
                   revoked, ttsCache, inflight, made, startPc, grades, speaks, warms,
                   sttLock, presses, inserted>>

\* if (seqAtStart !== currentSeqRef.current) return;  (before the request)
StaleAtSubmit(seqAtStart) == seqAtStart # seq

\* the press whose call is in progress: the last one that started a call
InProgress(p) ==
    CHOOSE i \in 1..Len(p) : p[i] = "started" /\ \A j \in (i + 1)..Len(p) : p[j] # "started"

\* await SpeechOnce.blobToDataURL(blob) settles: with an audio data URL and
\* the sequence unchanged API.reviewChain is awaited; else the call returns
\* (history: a return at the sequence check marks the press "abandoned")
EncodeDone(ok) ==
    /\ ~Settling
    /\ listen.pc = "encode"
    /\ listen' = [listen EXCEPT !.pc =
                     IF ok /\ ~StaleAtSubmit(listen.seq0) THEN "chain" ELSE "finally"]
    /\ presses' = IF ok /\ StaleAtSubmit(listen.seq0)
                  THEN [presses EXCEPT ![InProgress(presses)] = "abandoned"]
                  ELSE presses
    /\ UNCHANGED <<srv, stt, shows, mounted, audio, current, seq, loading, allowAutoplay, messages, ttsUrl,
                   effect, revoked, ttsCache, inflight, made, startPc, grades, speaks,
                   warms, sttLock, recState, inserted>>

\* await API.reviewChain(...) settles: out.ok with a reply ("reply") or without
\* ("noreply"), not ok ("fail"), or rejected ("throw": catch)
ChainDone(res) ==
    /\ ~Settling
    /\ listen.pc = "chain"
    /\ messages' = CASE res = "reply"   -> messages \o <<"transcript", "reply">>
                     [] res = "noreply" -> Append(messages, "transcript")
                     [] res = "fail"    -> Append(messages, "reviewfail")
                     [] res = "throw"   -> messages
    /\ recState' = IF res = "throw" THEN "idle" ELSE recState
    /\ listen' = [listen EXCEPT !.pc = "finally"]
    /\ UNCHANGED <<srv, stt, shows, mounted, audio, current, seq, loading, allowAutoplay, ttsUrl, effect,
                   revoked, ttsCache, inflight, made, startPc, grades, speaks, warms,
                   sttLock, presses, inserted>>

\* startListeningForAnswer returning without its finally block
ListenEndNoStop ==
    /\ ~Settling
    /\ listen.pc = "finally"
    /\ listen' = Idle
    /\ sttLock' = FALSE
    /\ UNCHANGED <<srv, stt, shows, mounted, audio, current, seq, loading, allowAutoplay, messages, ttsUrl, effect,
                   revoked, ttsCache, inflight, made, startPc, grades, speaks, warms,
                   recState, presses, inserted>>

\* finally { await stt.stop() } settles, startListeningForAnswer returns and
\* the click handler's finally releases the lock
ListenEnd ==
    /\ ~Settling
    /\ listen.pc = "finally"
    /\ listen' = Idle
    /\ sttLock' = FALSE
    /\ stt' = stopped(stt)
    /\ UNCHANGED <<srv, shows, mounted, audio, current, seq, loading, allowAutoplay, messages, ttsUrl, effect,
                   revoked, ttsCache, inflight, made, startPc, grades, speaks, warms,
                   recState, presses, inserted>>

----------------------------------------------------------------------------
(* The application: every handler and every continuation, interleaved *)

Next ==
    \/ StartClick
    \/ \E res \in {"empty", "error", "ok", "throw"} : StartDone(res)
    \/ StartCurrentFail
    \/ \E cur \in Cards \cup {EmptyCard} : StartCurrent(cur)
    \/ StartShow
    \/ GradeClick
    \/ \E ok \in BOOLEAN : GradeAnswered(ok)
    \/ GradeNextFail
    \/ \E next \in Cards \cup {EmptyCard} : GradeNext(next)
    \/ \E s \in 1..Len(speaks), res \in {"ok", "null", "throw"} : SpeakDone(s, res)
    \/ AutoplayEffect
    \/ \E k \in 1..Len(warms) : WarmSettle(k)
    \/ \E k \in 1..Len(warms) : CandidatesFail(k)
    \/ \E k \in 1..Len(warms), r \in CandidateResponses(NumCards) : CandidatesDone(k, r)
    \/ \E k \in 1..Len(warms), i \in 1..CONCURRENCY, res \in {"ok", "empty", "throw"} :
          InfoDone(k, i, res)
    \/ \E k \in 1..Len(warms), i \in 1..CONCURRENCY, res \in {"ok", "null", "throw"} :
          TtsDone(k, i, res)
    \/ RecordClick
    \/ PlaybackEnded
    \/ \E res \in {"ok", "denied", "norecorder"} : MicDone(res)
    \/ OnStartRecording
    \/ \E blob \in BOOLEAN : RecordDone(blob)
    \/ \E ok \in BOOLEAN : EncodeDone(ok)
    \/ \E res \in {"reply", "noreply", "fail", "throw"} : ChainDone(res)
    \/ ListenEnd

Spec == Init /\ [][Next]_vars

----------------------------------------------------------------------------
(* The review session: start, grading, Show Back and any number of Record
   presses, every prefetch request it launches left pending *)

\* Record button presses per run of SpecSession
MaxPresses == 2

\* Record answer is pressed.  The handler reads seqAtStart from
\* currentSeqRef.current in the task that calls startListeningForAnswer;
\* every earlier value of a session with a current item is offered too, as
\* a caller that read it before the call would pass it.
RecordPress(seqAtStart) ==
    /\ ~Settling
    /\ current # Null
    /\ Len(presses) < MaxPresses
    /\ Press(seqAtStart)

NextSession ==
    \/ StartClick
    \/ \E res \in {"empty", "error", "ok", "throw"} : StartDone(res)
    \/ StartCurrentFail
    \/ \E cur \in Cards \cup {EmptyCard} : StartCurrent(cur)
    \/ StartShow
    \/ GradeClick
    \/ \E ok \in BOOLEAN : GradeAnswered(ok)
    \/ GradeNextFail
    \/ \E next \in Cards \cup {EmptyCard} : GradeNext(next)
    \/ \E s \in 1..Len(speaks), res \in {"ok", "null", "throw"} : SpeakDone(s, res)
    \/ AutoplayEffect
    \/ ShowBackClick
    \/ ShowBackDone
    \/ \E seqAtStart \in 1..seq : RecordPress(seqAtStart)
    \/ PlaybackEnded
    \/ \E res \in {"ok", "denied", "norecorder"} : MicDone(res)
    \/ OnStartRecording
    \/ \E blob \in BOOLEAN : RecordDone(blob)
    \/ \E ok \in BOOLEAN : EncodeDone(ok)
    \/ \E res \in {"reply", "noreply", "fail", "throw"} : ChainDone(res)
    \/ ListenEnd

SpecSession == Init /\ [][NextSession]_vars

----------------------------------------------------------------------------
(* The cache on its own: stores and lookups one after the other, card ids
   first stored in the order 1, 2, 3, ... *)

\* the card ids stored so far are 1..NewestId
NewestId == Cardinality(DOMAIN made)

\* a synthesis for cardId completes and its blob URL is given to cacheSet
CacheStore(cardId) ==
    /\ IF cardId \in DOMAIN made
       THEN Len(inserted) - NewestId < MaxRestores
       ELSE NewestId < MAX_CACHE + ExtraIds
    /\ LET r == cacheSet(ttsCache, revoked, cardId, NewUrl(cardId))
       IN  /\ ttsCache' = r.cache
           /\ revoked' = r.rev
    /\ made' = Bump(made, cardId)
    /\ inserted' = Append(inserted, cardId)
    /\ UNCHANGED <<srv, stt, shows, mounted, audio, current, seq, loading, allowAutoplay, messages, ttsUrl, effect,
                   inflight, startPc, grades, speaks, warms, listen, sttLock,
                   recState, presses>>

\* the item cardId is visited: ttsSpeakCardFront's lookup
CacheVisit(cardId) ==
    /\ Lookup(cardId)
    /\ UNCHANGED <<srv, stt, shows, mounted, audio, current, seq, loading, allowAutoplay, messages, effect,
                   startPc, grades, speaks, warms, listen, sttLock, recState,
                   presses, inserted>>

NextCache ==
    \/ \E id \in {1, NewestId, NewestId + 1} \ {0} : CacheStore(id)
    \/ \E id \in 1..(NewestId + 1) : CacheVisit(id)

SpecCache == Init /\ [][NextCache]_vars

----------------------------------------------------------------------------
(* The prefetch pool on its own: overlapping warmPrefetch calls with any
   excluded card, over any answers of the collaborators *)

\* warmPrefetch(deck, excludeCardId, PREFETCH_COUNT) is called (excludeCardId 0:
\* a card that is not among the candidates)
WarmCall(excludeCardId) ==
    /\ ~Settling
    /\ Len(warms) < MaxWarmCalls
    /\ warms' = Append(warms, NewWarm(excludeCardId))
    /\ UNCHANGED <<srv, stt, shows, mounted, audio, current, seq, loading, allowAutoplay, messages, ttsUrl, effect,
                   revoked, ttsCache, inflight, made, startPc, grades, speaks,
                   listen, sttLock, recState, presses, inserted>>

NextWarm ==
    \/ \E k \in 1..Len(warms) : WarmSettle(k)
    \/ \E x \in 0..PoolCards : WarmCall(x)
    \/ \E k \in 1..Len(warms) : CandidatesFail(k)
    \/ \E k \in 1..Len(warms), r \in CandidateResponses(PoolCards) : CandidatesDone(k, r)
    \/ \E k \in 1..Len(warms), i \in 1..CONCURRENCY, res \in {"ok", "empty", "throw"} :
          InfoDone(k, i, res)
    \/ \E k \in 1..Len(warms), i \in 1..CONCURRENCY, res \in {"ok", "null", "throw"} :
          TtsDone(k, i, res)

SpecWarm == Init /\ [][NextWarm]_vars

\* a request sent by a worker of call k settles
FetchSettles(k) ==
    \E i \in 1..CONCURRENCY :
        \/ \E res \in {"ok", "empty", "throw"} : InfoDone(k, i, res)
        \/ \E res \in {"ok", "null", "throw"} : TtsDone(k, i, res)

\* the pool with the requests of every call settling sooner or later
\* (strongly: the continuation may have to wait for a microtask), and the
\* reaction to a settled call running
SpecWarmLive ==
    /\ Init
    /\ [][NextWarm]_vars
    /\ WF_vars(\E k \in 1..MaxWarmCalls : WarmSettle(k))
    /\ \A k \in 1..MaxWarmCalls : SF_vars(FetchSettles(k))

----------------------------------------------------------------------------
(* Unmounting: the effect cleanups run while prefetches are in flight *)

\* for (const url of ttsCache.current.values()) URL.revokeObjectURL(url)
RECURSIVE RevokeAll(_, _)
RevokeAll(rv, c) ==
    IF c = <<>> THEN rv ELSE RevokeAll(Revoke(rv, Head(c).url), Tail(c))

\* The component unmounts and React runs the effect cleanups in the order of
\* their declaration: the autoplay effect's cleanup revokes the URL it last
\* ran with, then the cleanup effect revokes every URL in the cache and
\* clears the cache.  Pending promises are not cancelled.
Teardown ==
    /\ ~Settling
    /\ mounted
    /\ mounted' = FALSE
    /\ revoked' = RevokeAll(IF effect.url # NoUrl
                            THEN Revoke(revoked, effect.url)
                            ELSE revoked, ttsCache)
    /\ ttsCache' = <<>>
    /\ UNCHANGED <<srv, stt, shows, audio, current, seq, loading, allowAutoplay, messages, ttsUrl,
                   effect, inflight, made, startPc, grades, speaks, warms,
                   listen, sttLock, recState, presses, inserted>>

\* the pool of SpecWarm, with the component unmounting at any moment; no
\* warmPrefetch call is started by an unmounted component's handlers
NextUnmount ==
    \/ \E k \in 1..Len(warms) : WarmSettle(k)
    \/ \E x \in 0..PoolCards : mounted /\ WarmCall(x)
    \/ \E k \in 1..Len(warms) : CandidatesFail(k)
    \/ \E k \in 1..Len(warms), r \in CandidateResponses(PoolCards) : CandidatesDone(k, r)
    \/ \E k \in 1..Len(warms), i \in 1..CONCURRENCY, res \in {"ok", "empty", "throw"} :
          InfoDone(k, i, res)
    \/ \E k \in 1..Len(warms), i \in 1..CONCURRENCY, res \in {"ok", "null", "throw"} :
          TtsDone(k, i, res)
    \/ Teardown

SpecUnmount == Init /\ [][NextUnmount]_vars

----------------------------------------------------------------------------
(* Listening after playback: the audio element, waitForPlaybackToFinish and
   the Record handler, in a session that is started and never graded *)

\* the playback state of the audio element: it has no source; its source
\* (the URL the autoplay effect gave it) has not started to play, autoplay
\* being pending or blocked; or it is playing, paused or ended
Playback ==
    CASE effect.url = NoUrl -> "nosrc"
      [] audio.url # effect.url -> "notstarted"
      [] OTHER -> audio.st

\* waitForPlaybackToFinish resolves: if (!el || !el.src) return resolve();
\* if (el.ended || ... el.currentTime >= el.duration - 0.01) return resolve();
\* else on the element's next "ended" event
PlaybackOver == Playback \in {"nosrc", "ended"}

\* startListeningForAnswer is to resume from a resolved
\* waitForPlaybackToFinish: its continuation runs before any other task
Resuming == listen.pc = "playback" /\ PlaybackOver

\* await waitForPlaybackToFinish() resolves and stt.start() is called
PlaybackFinished == PlaybackOver /\ PlaybackEnded

\* el.play() succeeds: tryPlay of the autoplay effect, onCanPlay, the Enable
\* audio button or the element's controls
AudioPlay ==
    /\ ~Settling
    /\ Playback \in {"notstarted", "paused"}
    /\ audio' = [url |-> effect.url, st |-> "playing"]
    /\ UNCHANGED <<srv, stt, shows, mounted, current, seq, loading, allowAutoplay, messages, ttsUrl,
                   effect, revoked, ttsCache, inflight, made, startPc, grades, speaks,
                   warms, listen, sttLock, recState, presses, inserted>>

\* the user pauses the clip with the element's controls
AudioPause ==
    /\ ~Settling
    /\ Playback = "playing"
    /\ audio' = [audio EXCEPT !.st = "paused"]
    /\ UNCHANGED <<srv, stt, shows, mounted, current, seq, loading, allowAutoplay, messages, ttsUrl,
                   effect, revoked, ttsCache, inflight, made, startPc, grades, speaks,
                   warms, listen, sttLock, recState, presses, inserted>>

\* the clip plays to its end: the element fires "ended"
AudioEnded ==
    /\ ~Settling
    /\ Playback = "playing"
    /\ audio' = [audio EXCEPT !.st = "ended"]
    /\ UNCHANGED <<srv, stt, shows, mounted, current, seq, loading, allowAutoplay, messages, ttsUrl,
                   effect, revoked, ttsCache, inflight, made, startPc, grades, speaks,
                   warms, listen, sttLock, recState, presses, inserted>>

\* the steps of the session other than the resumption from a resolved wait
ListenStep ==
    \/ StartClick
    \/ \E res \in {"empty", "error", "ok", "throw"} : StartDone(res)
    \/ StartCurrentFail
    \/ \E cur \in Cards \cup {EmptyCard} : StartCurrent(cur)
    \/ StartShow
    \/ \E s \in 1..Len(speaks), res \in {"ok", "null", "throw"} : SpeakDone(s, res)
    \/ AutoplayEffect
    \/ \E k \in 1..Len(warms) : WarmSettle(k)
    \/ \E k \in 1..Len(warms) : CandidatesFail(k)
    \/ AudioPlay
    \/ AudioPause
    \/ AudioEnded
    \/ RecordPress(seq)
    \/ \E res \in {"ok", "denied", "norecorder"} : MicDone(res)
    \/ OnStartRecording
    \/ \E blob \in BOOLEAN : RecordDone(blob)
    \/ \E ok \in BOOLEAN : EncodeDone(ok)
    \/ \E res \in {"reply", "noreply", "fail", "throw"} : ChainDone(res)
    \/ ListenEnd

NextListen ==
    \/ PlaybackFinished
    \/ ~Resuming /\ ListenStep

SpecListen == Init /\ [][NextListen]_vars

\* the collaborator calls of handleStart (start, current, show, the
\* synthesis) and of startListeningForAnswer (getUserMedia,
\* recordOneUtterance with its ticks firing, the encoding, the review-chain
\* request, stop) settle and their continuations run; a clip that is playing
\* and is not paused plays to its end.  Nothing obliges the browser to let a clip
\* start, or the user to start or resume one.
SpecListenLive ==
    /\ Init
    /\ [][NextListen]_vars
    /\ WF_vars(\E k \in 1..MaxSeq : WarmSettle(k))
    /\ WF_vars(AutoplayEffect)
    /\ WF_vars(\E res \in {"empty", "error", "ok", "throw"} : StartDone(res))
    /\ WF_vars(StartCurrentFail \/ \E cur \in Cards \cup {EmptyCard} : StartCurrent(cur))
    /\ WF_vars(StartShow)
    /\ WF_vars(\E s \in 1..MaxSeq, res \in {"ok", "null", "throw"} : SpeakDone(s, res))
    /\ WF_vars(PlaybackFinished)
    /\ WF_vars(AudioEnded)
    /\ WF_vars(\E res \in {"ok", "denied", "norecorder"} : MicDone(res))
    /\ WF_vars(\E blob \in BOOLEAN : RecordDone(blob))
    /\ WF_vars(\E ok \in BOOLEAN : EncodeDone(ok))
    /\ WF_vars(\E res \in {"reply", "noreply", "fail", "throw"} : ChainDone(res))
    /\ WF_vars(ListenEnd)

----------------------------------------------------------------------------
(* Grading: a session in which the grade buttons are pressed at any moment
   they are enabled, every prefetch request it launches left pending *)

\* grade button presses per run of SpecGrades
MaxGrades == 2

\* a grade button is pressed (enabled whenever current is set): grade(ease)
\* up to await API.answer(ease)
GradePress ==
    /\ ~Settling
    /\ current # Null
    /\ (seq - 1) + grades.answer + grades.fetch < MaxGrades
    /\ allowAutoplay' = TRUE
    /\ grades' = [grades EXCEPT !.answer = @ + 1]
    /\ UNCHANGED <<srv, stt, shows, mounted, audio, current, seq, loading, messages, ttsUrl, effect, revoked,
                   ttsCache, inflight, made, startPc, speaks, warms, listen,
                   sttLock, recState, presses, inserted>>

NextGrades ==
    \/ StartClick
    \/ \E res \in {"empty", "error", "ok", "throw"} : StartDone(res)
    \/ StartCurrentFail
    \/ \E cur \in Cards \cup {EmptyCard} : StartCurrent(cur)
    \/ StartShow
    \/ GradePress
    \/ \E ok \in BOOLEAN : GradeAnswered(ok)
    \/ GradeNextFail
    \/ \E next \in Cards \cup {EmptyCard} : GradeNext(next)
    \/ \E s \in 1..Len(speaks), res \in {"ok", "null", "throw"} : SpeakDone(s, res)
    \/ AutoplayEffect

SpecGrades == Init /\ [][NextGrades]_vars

----------------------------------------------------------------------------
(* The recorder on its own: one SpeechOnce object, its caller invoking
   start, recordOneUtterance and stop in any order, the browser delivering
   animation frames, timers and recorded data *)

\* the options of the recorder specification SpecRec: values small enough to
\* cross every threshold within a few frames
RecStartFrames == 2
RecEndFrames == 2
RecMaxMs == 1500
\* animation frames of SpecRec are RecFrameMs apart (a throttled page)
RecFrameMs == 250
\* recordOneUtterance calls and stop calls per SpeechOnce object
MaxRecCalls == 1
MaxStops == 2

RecOpts ==
    [rmsThreshold   |-> RMS_THRESHOLD,
     startFrames    |-> RecStartFrames,
     endFrames      |-> RecEndFrames,
     maxUtteranceMs |-> RecMaxMs]

\* the energies polled in SpecRec: at the threshold (silence) and above it
Energies == {RMS_THRESHOLD, RMS_THRESHOLD + 1}

InitRec ==
    /\ InitApp
    /\ srv = NoRequest
    /\ stt = SpeechOnce(RecOpts, RecFrameMs)

\* start() is called (by a caller that has awaited its stop() calls):
\* new AudioContext, await getUserMedia
start ==
    /\ stt.startPc = "none"
    /\ stt.stopPc = "idle"
    /\ stt' = startCall(stt)
    /\ UNCHANGED <<srv, appVars>>

\* await getUserMedia settles: rejected ("denied": start rejects); resolved
\* but no MediaRecorder can be constructed ("norecorder": start rejects with
\* _stream and _analyser set); or resolved and start runs to its end ("ok")
startResume(res) ==
    /\ stt.startPc = "pending"
    /\ stt' = startSettled(stt, res)
    /\ UNCHANGED <<srv, appVars>>

\* recordOneUtterance() without its first line: the first tick is scheduled
\* whatever the state of the recorder
recordOneUtteranceUnguarded ==
    /\ stt.call.st # "pending"
    /\ stt.calls < MaxRecCalls
    /\ stt' = [stt EXCEPT !.calls = @ + 1,
                          !.chunks = <<>>,
                          !.call = [NoCall EXCEPT !.st = "pending", !.raf = TRUE,
                                                  !.startedAt = stt.now]]
    /\ UNCHANGED <<srv, appVars>>

\* recordOneUtterance() is called: it returns null at once when the recorder
\* is not running, else the locals are set and the first tick is scheduled
recordOneUtterance ==
    /\ stt.call.st # "pending"
    /\ stt.calls < MaxRecCalls
    /\ stt' = IF ~stt.running \/ ~stt.analyser \/ ~stt.rec
              THEN [stt EXCEPT !.calls = @ + 1,
                               !.call = [NoCall EXCEPT !.st = "settled", !.resolved = 1,
                                                       !.doneAt = stt.now]]
              ELSE [stt EXCEPT !.calls = @ + 1,
                               !.chunks = <<>>,
                               !.call = [NoCall EXCEPT !.st = "pending", !.raf = TRUE,
                                                       !.startedAt = stt.now]]
    /\ UNCHANGED <<srv, appVars>>

\* the animation frame of the scheduled tick arrives
Tick(energy) ==
    /\ stt.call.raf
    /\ stt' = tick(stt, energy)
    /\ UNCHANGED <<srv, appVars>>

\* a finalize timer fires
Finalize ==
    /\ stt.call.timers > 0
    /\ stt' = finalize(stt)
    /\ UNCHANGED <<srv, appVars>>

\* _rec.ondataavailable: the MediaRecorder delivers what it has gathered, a
\* timeslice of start(250) while it records, the rest after requestData/stop;
\* if (ev.data.size > 0) this._chunks.push(ev.data)
ondataavailable ==
    /\ stt.buf # <<>>
    /\ stt.mr = "recording" => Len(stt.buf) * stt.rafMs >= TIMESLICE_MS
    /\ stt' = [stt EXCEPT !.chunks = Append(@, stt.buf), !.buf = <<>>]
    /\ UNCHANGED <<srv, appVars>>

\* stop() is called (by a caller that has awaited start()): _running = false,
\* the tracks are stopped, which ends a recording, await _ac.close()
stop ==
    /\ stt.stopPc = "idle"
    /\ stt.startPc # "pending"
    /\ stt.stops < MaxStops
    /\ stt' = stopCall(stt)
    /\ UNCHANGED <<srv, appVars>>

\* await this._ac?.close() settles (a rejection is caught): the references
\* are cleared and stop() returns
stopResume ==
    /\ stt.stopPc = "closing"
    /\ stt' = stopSettled(stt)
    /\ UNCHANGED <<srv, appVars>>

NextRec ==
    \/ start
    \/ \E res \in {"denied", "norecorder", "ok"} : startResume(res)
    \/ recordOneUtterance
    \/ \E energy \in Energies : Tick(energy)
    \/ Finalize
    \/ ondataavailable
    \/ stop
    \/ stopResume

SpecRec == InitRec /\ [][NextRec]_vars

----------------------------------------------------------------------------
(* The recorder with a caller that awaits the result of recordOneUtterance
   before it calls stop(), as startListeningForAnswer does, in a browser
   that keeps delivering animation frames and timers *)

NextLive ==
    \/ start
    \/ \E res \in {"denied", "norecorder", "ok"} : startResume(res)
    \/ recordOneUtterance
    \/ \E energy \in Energies : Tick(energy)
    \/ Finalize
    \/ ondataavailable

\* requestAnimationFrame callbacks and setTimeout callbacks that are
\* scheduled do run
SpecLive ==
    /\ InitRec
    /\ [][NextLive]_vars
    /\ WF_vars(\E energy \in Energies : Tick(energy))
    /\ WF_vars(Finalize)

----------------------------------------------------------------------------
(* The recorder of the App (startFrames 4, rmsThreshold 0.02, endFrames 60)
   fed one given energy trace, with no stop() before the result *)

\* four zeros, then 0.05, 0.06, 0.07, 0.08, then 65 zeros
EnergyTrace == [i \in 1..73 |-> IF i \in 5..8 THEN i ELSE 0]

\* the next animation frame polls the next energy of the trace
TraceTick ==
    /\ stt.polled < Len(EnergyTrace)
    /\ Tick(EnergyTrace[stt.polled + 1])

NextTrace ==
    \/ start
    \/ startResume("ok")
    \/ recordOneUtterance
    \/ TraceTick
    \/ Finalize
    \/ ondataavailable

SpecTrace == Init /\ [][NextTrace]_vars

----------------------------------------------------------------------------
(* Claims *)

\* C1: a startListeningForAnswer call that captured sequence value N appends
\* no message to the chat once currentSeqRef has moved past N, also when it
\* moved while the review-chain request was pending.
C1_StaleListenAppendsNothing ==
    [][(/\ listen.snap \in Cards
        /\ listen.pc = "chain" /\ listen'.pc = "finally"
        /\ messages' # messages)
          => listen.seq0 = seq]_vars

\* C2: ttsSpeakCardFront selects a card's audio for playback (setTtsUrl) only
\* while that card is the current item.
C2_PlaybackOnlyForCurrent ==
    [][ttsUrl' # ttsUrl => ttsUrl'.card = current']_vars

\* the syntheses outstanding for card id: on demand, and in the prefetch pool
OnDemandSynths(id) == {s \in 1..Len(speaks) : speaks[s].card = id}

PoolSynths(id) ==
    {<<k, i>> \in (1..Len(warms)) \X (1..CONCURRENCY) :
        /\ i <= Len(warms[k].w)
        /\ warms[k].w[i].st = "tts"
        /\ warms[k].w[i].id = id}

\* C3: for every item id at most one synthesis request is outstanding at any
\* time, counting the on-demand and the speculative path together: an
\* on-demand request starts no synthesis for an id that is being synthesized
\* by the pool.
C3_OneSynthesisPerItem ==
    \A id \in Cards :
        /\ Cardinality(PoolSynths(id)) <= 1
        /\ PoolSynths(id) # {} => OnDemandSynths(id) = {}

\* the prefetchOneCard fetches in progress for card id, over all warm calls
Fetches(id) ==
    {<<k, i>> \in (1..Len(warms)) \X (1..CONCURRENCY) :
        /\ i <= Len(warms[k].w)
        /\ warms[k].w[i].st \in {"info", "tts"}
        /\ warms[k].w[i].id = id}

\* C4: over overlapping warmPrefetch calls whose candidate lists share ids, no
\* item id has two prefetchOneCard fetches in progress at the same time.
C4_OneFetchPerItem ==
    \A id \in 1..PoolCards : Cardinality(Fetches(id)) <= 1

\* two calls overlap on an id: one fetches it, the other has skipped it
C4_Witness ==
    \E k1, k2 \in 1..Len(warms) :
        /\ k1 # k2
        /\ \E j \in 1..Len(warms[k2].log) :
              /\ warms[k2].log[j].out = "skip"
              /\ \E i \in 1..Len(warms[k1].w) : <<k1, i>> \in Fetches(warms[k2].log[j].id)

\* C5: every entry resident in ttsCache refers to a blob URL that has not been
\* revoked.
C5_ResidentHandlesLive ==
    \A i \in 1..Len(ttsCache) : Count(revoked, ttsCache[i].url) = 0

\* C6: the cache never holds more than MAX_CACHE entries; a cacheSet that takes
\* the size past MAX_CACHE removes exactly the oldest entry and revokes its URL
\* exactly once; any other cacheSet removes and revokes nothing.
C6_BoundedEviction ==
    /\ [](Len(ttsCache) <= MAX_CACHE)
    /\ [][inserted' # inserted =>
            LET id     == Last(inserted')
                gone   == Range(ttsCache) \ Range(ttsCache')
                oldest == Head(ttsCache)
                urls   == DOMAIN revoked \cup DOMAIN revoked'
            IN  IF ~CacheHas(ttsCache, id) /\ Len(ttsCache) + 1 > MAX_CACHE
                THEN /\ gone = {oldest}
                     /\ Len(ttsCache') = MAX_CACHE
                     /\ \A u \in urls :
                           Count(revoked', u) =
                               Count(revoked, u) + (IF u = oldest.url THEN 1 ELSE 0)
                ELSE /\ gone = {}
                     /\ revoked' = revoked]_vars

\* the cache is full and an eviction has taken place
C6_Witness ==
    /\ Len(ttsCache) = MAX_CACHE
    /\ DOMAIN revoked # {}

\* the card ids resident in the cache, oldest first
ResidentIds == [i \in 1..Len(ttsCache) |-> ttsCache[i].id]

\* C7: after MAX_CACHE + k distinct ids were inserted in order into an empty
\* cache, exactly the last MAX_CACHE of them are resident, in insertion order.
C7_LastMaxCacheResident ==
    LET n == Len(inserted)
    IN  (n >= MAX_CACHE /\ inserted = [i \in 1..n |-> i])
            => ResidentIds = [i \in 1..MAX_CACHE |-> n - MAX_CACHE + i]

\* ids 1..MAX_CACHE + 2 were inserted in order: 1 and 2 are evicted
C7_Witness ==
    /\ inserted = [i \in 1..(MAX_CACHE + 2) |-> i]
    /\ ResidentIds = [i \in 1..MAX_CACHE |-> i + 2]

\* C8: a lookup, hit or miss, changes neither the cache contents nor their
\* order nor inflight: a hit does not move the entry to the newest position.
C8_LookupChangesNothing ==
    [][inserted' = inserted =>
          /\ ttsCache' = ttsCache
          /\ inflight' = inflight
          /\ revoked' = revoked]_vars

\* the entry of card 1 was visited with newer entries behind it, and was still
\* the one evicted when the cache overflowed
C8_Witness ==
    /\ ttsUrl = [card |-> 1, k |-> 1]
    /\ ~CacheHas(ttsCache, 1)
    /\ Count(revoked, ttsUrl) = 1
    /\ ResidentIds = [i \in 1..MAX_CACHE |-> i + 1]

\* the candidates of call wc whose fetch or synthesis failed
Failing(wc) == {wc.log[j].id : j \in {j \in 1..Len(wc.log) : wc.log[j].out = "fail"}}

\* the candidates of call wc for which it made a blob URL
Fetched(wc) == {wc.log[j].id : j \in {j \in 1..Len(wc.log) : wc.log[j].out = "ok"}}

\* a call rejects only when API.candidates does, before any candidate is taken
NoThrowFromCandidates ==
    \A k \in 1..Len(warms) :
        warms[k].st = "rejected" => warms[k].list = <<>> /\ warms[k].log = <<>>

\* C9 as stated: when a warm call completes, the cache contains its
\* non-failing candidates and no failing one, and the call has not thrown.
C9_Original ==
    /\ NoThrowFromCandidates
    /\ \A k \in 1..Len(warms) :
          warms[k].st = "done" =>
              \A c \in Range(warms[k].list) :
                  IF c \in Failing(warms[k])
                  THEN ~CacheHas(ttsCache, c)
                  ELSE CacheHas(ttsCache, c)

\* the cards of which an entry was evicted from the cache
Evicted == {u.card : u \in DOMAIN revoked}

\* C9, amended: a warm call does not throw whatever candidates fail; when it
\* completes the cache contains every candidate this call fetched and
\* synthesized itself, unless the MAX_CACHE bound has evicted it since; and a
\* fetch that fails stores no entry.
C9_FailuresSkipped ==
    /\ [](/\ NoThrowFromCandidates
          /\ \A k \in 1..Len(warms) :
                warms[k].st = "done" =>
                    \A c \in Fetched(warms[k]) :
                        CacheHas(ttsCache, c) \/ c \in Evicted)
    /\ [][\A k \in 1..Len(warms) : \A j \in 1..Len(warms[k].log) :
             (/\ warms[k].log[j].out = "pending"
              /\ Len(warms') = Len(warms)
              /\ warms'[k].log[j].out = "fail")
                 => ttsCache' = ttsCache]_vars

\* a call completed with a failing candidate left out and a fetched one stored
C9_Witness ==
    \E k \in 1..Len(warms) :
        /\ warms[k].st = "done"
        /\ \E b \in Failing(warms[k]) : ~CacheHas(ttsCache, b)
        /\ \E a \in Fetched(warms[k]) : CacheHas(ttsCache, a)

\* the prefetchOneCard operations of call wc that are pending
Pending(wc) == {i \in 1..Len(wc.w) : wc.w[i].st \in {"info", "tts"}}

\* C10: a warm call has at most CONCURRENCY prefetches pending, launches
\* min(CONCURRENCY, number of candidates) workers, and every candidate is taken
\* from the shared queue once, in order, none in advance.
C10_WorkerPool ==
    \A k \in 1..Len(warms) :
        warms[k].st \in {"run", "done"} =>
            LET wc == warms[k]
            IN  /\ Cardinality(Pending(wc)) <= CONCURRENCY
                /\ Len(wc.w) = Min(CONCURRENCY, Len(wc.list))
                /\ [j \in 1..Len(wc.log) |-> wc.log[j].id] = SubSeq(wc.list, 1, Len(wc.log))
                /\ wc.log \o wc.queue # <<>> => Len(wc.log) + Len(wc.queue) = Len(wc.list)


\* C11: an item id is in inflight exactly while a prefetchOneCard for it is
\* between its start and its end, however the fetch ends; with no prefetch
\* pending inflight is empty.
C11_InflightIsPending ==
    inflight = {id \in 1..PoolCards : Fetches(id) # {}}

\* a fetch has ended by a failure and its id has left inflight, while the
\* fetch of another id is still pending
C11_Witness ==
    \E k \in 1..Len(warms) : \E j \in 1..Len(warms[k].log) :
        /\ warms[k].log[j].out = "fail"
        /\ warms[k].log[j].id \notin inflight
        /\ inflight # {}


\* the frame of history h at which the capture starts: the first one that
\* completes a run of startFrames values above the threshold (0: none)
StartFrame(h, o) ==
    LET runs == {i \in o.startFrames..Len(h) :
                    \A j \in (i - o.startFrames + 1)..i : h[j] > o.rmsThreshold}
    IN  IF runs = {} THEN 0 ELSE CHOOSE i \in runs : \A j \in runs : i <= j

\* the number of consecutive values at or below the threshold that end h,
\* counted after the frame that started the capture
SilentRun(h, o) ==
    LET from == StartFrame(h, o)
        loud == {i \in (from + 1)..Len(h) : h[i] > o.rmsThreshold}
        last == IF loud = {} THEN from ELSE CHOOSE i \in loud : \A j \in loud : j <= i
    IN  Len(h) - last

\* a tick polls a frame while the capture is on and stop() was not called
PollsWhileRecording ==
    /\ stt.call.st = "pending"
    /\ stt.running
    /\ StartFrame(stt.call.hist, stt.opts) > 0
    /\ Len(stt'.call.hist) = Len(stt.call.hist) + 1

\* the recorder is still in the Recording state after the step
StaysRecording ==
    /\ stt'.call.st = "pending"
    /\ stt'.call.raf
    /\ stt'.call.timers = 0
    /\ stt'.mr = "recording"
    /\ stt'.ops = stt.ops
    /\ Last(stt'.call.hist) > stt.opts.rmsThreshold => stt'.call.silenceFrames = 0

\* C12 as stated: after startFrames values above the threshold, and while fewer
\* than endFrames consecutive values at or below it have followed, the
\* recorder remains in the Recording state.
C12_Original ==
    [][(PollsWhileRecording /\ SilentRun(stt'.call.hist, stt.opts) < stt.opts.endFrames)
          => StaysRecording]_vars

\* C12, amended: the same while maxUtteranceMs has not elapsed since the
\* invocation; an above-threshold frame resets the silence count to zero.
C12_NoPrematureStop ==
    [][(/\ PollsWhileRecording
        /\ SilentRun(stt'.call.hist, stt.opts) < stt.opts.endFrames
        /\ stt'.now - stt.call.startedAt <= stt.opts.maxUtteranceMs)
          => StaysRecording]_vars

\* the capture is on after endFrames silent frames that were not consecutive:
\* an above-threshold frame came in between
C12_Witness ==
    LET h == stt.call.hist
        from == StartFrame(h, stt.opts)
    IN  /\ stt.call.st = "pending"
        /\ stt.call.raf
        /\ stt.call.recording
        /\ from > 0
        /\ Cardinality({i \in (from + 1)..Len(h) : h[i] <= stt.opts.rmsThreshold})
              >= stt.opts.endFrames
        /\ Last(h) <= stt.opts.rmsThreshold


\* the time since recordOneUtterance was invoked: now for a pending call, at
\* its resolution for a settled one
Elapsed ==
    (IF stt.call.st = "settled" THEN stt.call.doneAt ELSE stt.now) - stt.call.startedAt

\* C13: over energies with no run of startFrames values above the threshold
\* (and no stop() call), recordOneUtterance resolves to an empty result, and
\* does so before maxUtteranceMs has elapsed since its invocation.
C13_EmptyBeforeCeiling ==
    (/\ stt.call.st \in {"pending", "settled"}
     /\ StartFrame(stt.call.hist, stt.opts) = 0
     /\ ~stt.call.stopSeen)
        => /\ Elapsed <= stt.opts.maxUtteranceMs
           /\ stt.call.st = "settled" => ~stt.call.blob


\* C14: on every stop of a capture, by the silence run or by the ceiling,
\* requestData is called on the media recorder right before stop, and the
\* result segment is built only after both calls were made.
C14_FlushStopFinalize ==
    LET ops == stt.ops
    IN  /\ \A i \in 1..Len(ops) :
              ops[i] = "stop" => i > 1 /\ ops[i - 1] = "requestData"
        /\ Cardinality({i \in 1..Len(ops) : ops[i] = "stop"}) >= stt.call.finals
        /\ (stt.call.timers > 0 \/ "onStopRecording" \in Range(stt.call.cbs))
              => /\ Len(ops) >= 2
                 /\ SubSeq(ops, Len(ops) - 1, Len(ops)) = <<"requestData", "stop">>

\* a capture stopped by the silence run has resolved with a segment
C14_Witness ==
    /\ stt.call.st = "settled"
    /\ stt.call.blob
    /\ stt.call.cause = <<"silence">>
    /\ stt.ops = <<"start", "requestData", "stop">>


\* C15: a capture in the Recording state that the ceiling stops resolves, as
\* a normal value, with a segment holding everything the media recorder
\* gathered for it, the final chunk of the flush and stop included.
C15_CeilingKeepsFinalChunk ==
    (/\ stt.call.st = "settled"
     /\ stt.call.cause = <<"max">>
     /\ stt.call.captured # <<>>
     /\ ~stt.call.stopSeen)
        => /\ stt.call.blob
           /\ stt.call.frames = stt.call.captured


\* C16: when stop() is invoked while a recordOneUtterance promise is pending,
\* in the Idle state, in the Recording state or in the finalize delay, the
\* promise resolves with an empty result: no finalize callback fails and
\* leaves it pending, and it resolves with no segment.
C16_StopResolvesEmpty ==
    stt.call.stopSeen =>
        /\ ~stt.call.threw
        /\ stt.call.st = "settled" => ~stt.call.blob


C18_NotRunningResolvesAtOnce ==
    [][(/\ stt'.calls = stt.calls + 1
        /\ ~stt.running \/ ~stt.analyser \/ ~stt.rec)
          => /\ stt'.call.st = "settled"
             /\ ~stt'.call.blob
             /\ stt'.call.resolved = 1
             /\ ~stt'.call.raf
             /\ stt'.call.timers = 0
             /\ stt'.call.hist = <<>>
             /\ stt'.call.cbs = <<>>
             /\ stt'.polled = stt.polled
             /\ stt'.ops = stt.ops
             /\ stt'.mr = stt.mr
             /\ stt'.chunks = stt.chunks]_vars

\* recordOneUtterance was called after a successful start and a stop, and
\* has resolved with no result and without a poll
C18_Witness ==
    /\ stt.startPc = "done"
    /\ stt.stops > 0
    /\ stt.calls = 1
    /\ stt.call.st = "settled"
    /\ ~stt.call.blob
    /\ stt.polled = 0


\* the recorder is not running, its references are cleared, no track is live
\* and no AudioContext is open
Stopped(s) ==
    /\ ~s.running
    /\ ~s.stream
    /\ ~s.analyser
    /\ ~s.rec
    /\ s.tracks # "live"
    /\ s.ac # "open"

\* the fields of the object that stop() is to leave alone when called again
Resources(s) ==
    <<s.running, s.stream, s.analyser, s.rec, s.tracks, s.ac, s.mr, s.chunks>>

\* C19: in every state of the recorder (before start, after a failed start,
\* Idle, Recording, stopped) a stop() that returns leaves it not running,
\* with the references cleared and the tracks stopped; and a stop() called on
\* a stopped recorder changes nothing.
C19_StopIdempotent ==
    /\ [][(stt.stopPc = "closing" /\ stt'.stopPc = "idle") => Stopped(stt')]_vars
    /\ [][(Stopped(stt) /\ stt'.stopPc # stt.stopPc) =>
              Resources(stt') = Resources(stt)]_vars

\* a recorder stopped while it was recording has been stopped a second time
C19_Witness ==
    /\ stt.call.recording
    /\ stt.call.stopSeen
    /\ stt.stops = 2
    /\ stt.stopPc = "idle"
    /\ stt.tracks = "ended"
    /\ Stopped(stt)


\* C20: with startFrames 4, rmsThreshold 0.02 and endFrames 60, the trace of
\* four zeros, 0.05, 0.06, 0.07, 0.08 and 65 zeros yields a non-empty segment
\* that spans the four above-threshold frames (frames 5 to 8) and the tail.
C20_TraceSegment ==
    (stt.call.st = "settled" /\ stt.call.hist # <<>>)
        => /\ stt.call.blob
           /\ 5..8 \subseteq Range(stt.call.frames)

----------------------------------------------------------------------------
(* The server on its own: POST /api/answer requests served one after the
   other, AnkiConnect answering, failing or timing out *)

\* requests served per run
MaxRequests == 2

\* POST /api/answer arrives with req.body.ease = ease: the ease is
\* converted and validated; 400, or ankiInvoke("guiShowAnswer") is awaited
AnswerRequest(ease) ==
    /\ srv.pc = "idle"
    /\ srv.served < MaxRequests
    /\ LET h == [NoRequest EXCEPT !.ease = ease, !.n = Number(ease),
                                  !.served = srv.served + 1]
       IN srv' = IF ~ValidEase(h.n) THEN Respond(h, 400)
                                    ELSE Invoke(h, "guiShowAnswer")
    /\ UNCHANGED <<appVars, stt>>

\* the attempt in progress ends, with a result (msg = NoError) or with an
\* error of message msg: "ok"; "timeout" (an error ankiInvoke retries: socket
\* hang up, ECONNRESET, timeout); "error" (any other error)
Outcome(msg) ==
    CASE msg = NoError -> "ok"
      [] Retryable(msg) -> "timeout"
      [] OTHER -> "error"

\* the request to AnkiConnect ends: with a result, ankiInvoke returns it;
\* with an error it retries, ankiInvoke waits 200 ms and sends the request
\* again while it has retries left; else ankiInvoke throws the error
AnkiSettled(msg) ==
    /\ srv.pc # "idle"
    /\ LET out == Outcome(msg)
           h == [Close(srv, out) EXCEPT !.atts = Append(@, msg)]
       IN srv' = CASE out = "ok" ->
                        Continue([h EXCEPT !.atts = <<>>,
                                           !.done = [atts |-> h.atts, end |-> "returned",
                                                     result |-> Len(h.atts),
                                                     err |-> NoError]], TRUE)
                   [] out = "timeout" /\ srv.retries > 0 ->
                        [h EXCEPT !.retries = @ - 1,
                                  !.calls = Append(@, [action |-> h.pc,
                                                       out |-> "pending"])]
                   [] OTHER ->
                        Continue([h EXCEPT !.atts = <<>>,
                                           !.done = [atts |-> h.atts, end |-> "threw",
                                                     result |-> 0, err |-> msg]], FALSE)
    /\ UNCHANGED <<appVars, stt>>

NextAnswer ==
    \/ \E ease \in EaseValues : AnswerRequest(ease)
    \/ \E msg \in {NoError} \cup ErrorMessages : AnkiSettled(msg)

SpecAnswer == Init /\ [][NextAnswer]_vars

----------------------------------------------------------------------------
(* The session sequence *)

\* an item transition: the continuation of handleStart or of grade that
\* receives the card from API.current()
ItemTransition ==
    \E card \in Cards \cup {EmptyCard} : StartCurrent(card) \/ GradeNext(card)

\* C21: the sequence counter never decreases; every step that replaces the
\* current item (handleStart after the card fetch, grade after the next-card
\* fetch) increments it by exactly 1 in that same step; every other step
\* (showBack, recording, a prefetch launch, a failed or empty start) leaves
\* both the counter and the current item as they were.
C21_SequenceCountsTransitions ==
    [][/\ seq' >= seq
       /\ ItemTransition => seq' = seq + 1
       /\ ~ItemTransition => (seq' = seq /\ current' = current)]_vars

\* C21 witness: two item transitions counted, with a showBack, a Record
\* press and prefetch launches in between
C21_Witness ==
    /\ seq = 2
    /\ current \in Cards
    /\ shows.done > 0
    /\ presses # <<>>
    /\ warms # <<>>

\* C22: under any interleaving of Record presses at most one
\* startListeningForAnswer is in progress: the lock is held exactly while a
\* call is in progress, a press while it is held starts nothing (the call in
\* progress, its recorder and recState stay as they are), and the step in
\* which the call settles, by return or after a caught exception, releases
\* the lock.
C22_OneListenAtATime ==
    /\ [](sttLock <=> listen.pc # "idle")
    /\ [][/\ (sttLock /\ Len(presses') > Len(presses))
               => /\ UNCHANGED <<listen, sttLock, stt, recState, messages>>
                  /\ Last(presses') = "held"
          /\ (listen.pc # "idle" /\ listen'.pc = "idle") => ~sttLock']_vars

\* C22 witness: a second press found the lock held and was refused, and the
\* call in progress went on to record
C22_Witness ==
    /\ presses = <<"started", "held">>
    /\ listen.pc = "record"

\* C23: when the microphone acquisition fails, start() rejects (the call goes
\* to its catch and finally, never on to recordOneUtterance or to the
\* review-chain request) and leaves the recorder not running; no second
\* acquisition follows on that recorder; and the attempt ends with recState
\* idle, the recorder stopped, the lock released and no message appended.
C23_MicFailureEndsAttempt ==
    /\ [](stt.startPc = "failed"
             => /\ listen.pc \in {"finally", "idle"}
                /\ ~stt.running
                /\ recState = "idle")
    /\ [][/\ (stt.startPc = "failed" /\ stt'.startPc # "failed")
               => (listen.pc = "idle" /\ Last(presses') = "started")
          /\ (stt.startPc = "failed" /\ listen.pc = "finally" /\ listen'.pc = "idle")
               => /\ recState' = "idle"
                  /\ Stopped(stt')
                  /\ ~sttLock'
                  /\ messages' = messages]_vars

\* C23 witness: an attempt whose acquisition failed has ended
C23_Witness ==
    /\ stt.startPc = "failed"
    /\ stt.stops > 0
    /\ listen.pc = "idle"
    /\ presses # <<>>

\* C25: grading advances whether or not the back was shown: a grade button
\* press is accepted for every current item, whatever showBack calls were
\* made or are pending, and the continuation that receives the next card
\* replaces the current item and advances the sequence; showBack itself
\* changes neither the current item nor the sequence counter nor the cache.
C25_GradeIgnoresShowBack ==
    /\ []((current # Null /\ ~Settling /\ Advances < MaxSeq) => ENABLED GradeClick)
    /\ [][/\ shows' # shows
               => UNCHANGED <<current, seq, ttsCache, inflight, ttsUrl, grades>>
          /\ \A next \in Cards \cup {EmptyCard} :
                GradeNext(next) => (current' = next /\ seq' = seq + 1)]_vars

\* C25 witness: a card was graded and the next one made current (the front
\* appended after the first front) with no showBack call made at all
C25_Witness ==
    /\ seq = 2
    /\ current \in Cards
    /\ messages = <<"front", "front">>
    /\ shows = [pending |-> 0, done |-> 0]

----------------------------------------------------------------------------
(* The start of a capture *)

\* the last k values of h are all above the threshold
LoudRun(h, o, k) ==
    /\ Len(h) >= k
    /\ \A j \in (Len(h) - k + 1)..Len(h) : h[j] > o.rmsThreshold

\* the number of consecutive values above the threshold that end h
TrailingLoud(h, o) ==
    LET quiet == {i \in 1..Len(h) : h[i] <= o.rmsThreshold}
    IN  IF quiet = {} THEN Len(h) ELSE Len(h) - (CHOOSE i \in quiet : \A j \in quiet : j <= i)

\* C26: a step starts the capture (MediaRecorder.start, Recording entered) if
\* and only if it is a tick that polls a frame while Recording has not been
\* entered in this invocation and that frame and the startFrames - 1 before
\* it were all above rmsThreshold; while Idle the speech count is the length
\* of the run of above-threshold frames that ends the frames polled, so a
\* frame at or below the threshold resets it to zero.
C26_StartNeedsConsecutiveSpeech ==
    /\ []((stt.call.st = "pending" /\ ~stt.call.recording)
              => /\ stt.call.speakingFrames = TrailingLoud(stt.call.hist, stt.opts)
                 /\ stt.call.speakingFrames < stt.opts.startFrames)
    /\ [][(stt'.call.started > stt.call.started)
              <=> /\ stt.call.st = "pending"
                  /\ ~stt.call.recording
                  /\ Len(stt'.call.hist) = Len(stt.call.hist) + 1
                  /\ LoudRun(stt'.call.hist, stt.opts, stt.opts.startFrames)]_vars

\* C26 witness: Recording was entered on a run of startFrames frames above
\* the threshold, after an earlier loud frame that a silent frame had cut off
C26_Witness ==
    /\ stt.call.recording
    /\ stt.call.started = 1
    /\ \E i \in 1..Len(stt.call.hist) :
          /\ stt.call.hist[i] > stt.opts.rmsThreshold
          /\ i + 1 < StartFrame(stt.call.hist, stt.opts) - stt.opts.startFrames + 1
          /\ stt.call.hist[i + 1] <= stt.opts.rmsThreshold

\* C27: whatever the energies, a pending recordOneUtterance invocation is
\* eventually resolved when the scheduled ticks and timers run; the first
\* tick later than maxUtteranceMs after the invocation schedules the stop
\* whatever the energy polled and whether or not Recording was entered, so
\* the result comes no later than maxUtteranceMs plus one frame plus the
\* finalize delay after the invocation.
C27_ResolvesByCeiling ==
    /\ (stt.call.st = "pending") ~> (stt.call.st = "settled")
    /\ [](stt.call.st = "settled"
             => stt.call.doneAt - stt.call.startedAt
                   <= stt.opts.maxUtteranceMs + stt.rafMs + FINALIZE_MS)
    /\ [][(/\ stt.call.st = "pending"
           /\ Len(stt'.call.hist) = Len(stt.call.hist) + 1
           /\ stt'.now - stt.call.startedAt > stt.opts.maxUtteranceMs)
              => /\ ~stt'.call.raf
                 /\ stt'.call.timers = 1
                 /\ stt'.call.finals = stt.call.finals + 1
                 /\ stt'.mr = "inactive"]_vars

\* C27 witness: an invocation fed speech up to the ceiling was stopped by
\* the ceiling alone and resolved
C27_Witness ==
    /\ stt.call.st = "settled"
    /\ stt.call.cause = <<"max">>
    /\ stt.call.recording
    /\ Last(stt.call.hist) > stt.opts.rmsThreshold
    /\ stt.call.blob

\* MediaRecorder.start has never been called on this recorder
NeverStarted(s) == "start" \notin Range(s.ops)

\* C28: from start() on, as long as no invocation has observed startFrames
\* consecutive frames above the threshold, the MediaRecorder has not been
\* started, it has gathered nothing and _chunks is empty; so an invocation
\* that ends in that period (the ceiling reached while Idle, or stop() called
\* from outside) resolves with null, an empty result and not a rejection.
C28_NoCaptureBeforeSpeech ==
    /\ (stt.calls <= 1 /\ StartFrame(stt.call.hist, stt.opts) = 0) => NeverStarted(stt)
    /\ NeverStarted(stt)
          => /\ stt.mr # "recording"
             /\ stt.buf = <<>>
             /\ stt.chunks = <<>>
             /\ stt.call.captured = <<>>
             /\ stt.call.st = "settled" => (~stt.call.blob /\ stt.call.frames = <<>>)

\* C28 witness: an invocation that heard speech, though never startFrames
\* frames in a row, reached the ceiling while Idle and resolved with null
C28_Witness ==
    /\ stt.call.st = "settled"
    /\ stt.call.cause = <<"max">>
    /\ ~stt.call.recording
    /\ \E i \in 1..Len(stt.call.hist) : stt.call.hist[i] > stt.opts.rmsThreshold
    /\ ~stt.call.blob

----------------------------------------------------------------------------
(* The two sequence checks of startListeningForAnswer *)

\* C29: a stale listening call is abandoned silently at both checkpoints.
\* On entry: a call whose seqAtStart differs from the counter acquires no
\* microphone and changes no recorder state (no SpeechOnce is constructed,
\* recState stays, nothing is awaited) and appends nothing.  After the
\* capture: when the counter differs, the call goes from the encoding
\* straight to its finally, with no review-chain request and no message.
\* In both cases it returns: the step that ends it leaves no call in
\* progress and the lock free, and nothing starts it again.
C29_StaleAbandonedSilently ==
    [][/\ \A seqAtStart \in 1..seq :
             (seqAtStart # seq /\ RecordPress(seqAtStart))
                => /\ UNCHANGED <<listen, stt, recState, sttLock, messages>>
                   /\ listen.pc = "idle" => Last(presses') = "stale"
       /\ (listen.pc = "encode" /\ listen' # listen /\ listen.seq0 # seq)
             => /\ listen'.pc = "finally"
                /\ UNCHANGED <<messages, recState>>
       /\ (listen.pc = "finally" /\ listen' # listen)
             => /\ listen' = Idle
                /\ ~sttLock'
                /\ UNCHANGED <<messages, recState>>]_vars

\* C29 witness: the call of the first press, overtaken by a grade while it
\* recorded, left at the check after the capture and returned; a second
\* call, made with the old sequence value, was abandoned on entry
C29_Witness ==
    /\ presses = <<"abandoned", "stale">>
    /\ listen = Idle
    /\ ~sttLock

----------------------------------------------------------------------------
(* The completion of a warmPrefetch call *)

\* the candidates call wc has given to prefetchOneCard so far, in order
Attempted(wc) == [j \in 1..Len(wc.log) |-> wc.log[j].id]

\* a step of call k skips a candidate only if it is cached or in flight
SkipsOnlyKnown(k) ==
    \A j \in (Len(warms[k].log) + 1)..Len(warms'[k].log) :
        warms'[k].log[j].out = "skip"
            => warms'[k].log[j].id \in CacheIds(ttsCache') \cup inflight \cup inflight'

\* C30: a warmPrefetch call whose fetches and syntheses settle completes, and
\* it completes exactly when every candidate of its list has been attempted:
\* the candidates attempted followed by those still queued are the list, so
\* none is attempted twice; the call is done only with the queue empty and no
\* attempt pending, whatever failed, and it keeps running only while a fetch
\* or a synthesis is pending; a candidate is skipped without a fetch only
\* when it is cached or in flight.
C30_WarmPrefetchCompletes ==
    /\ \A k \in 1..MaxWarmCalls :
          (Len(warms) >= k /\ warms[k].st = "run")
             ~> (\E j \in 1..k : Len(warms) >= j /\ warms[j].st = "done")
    /\ [](\A k \in 1..Len(warms) :
            warms[k].st \in {"run", "done"}
               => /\ Attempted(warms[k]) \o warms[k].queue = warms[k].list
                  /\ warms[k].st = "done"
                        => /\ warms[k].queue = <<>>
                           /\ \A j \in 1..Len(warms[k].log) :
                                 warms[k].log[j].out # "pending"
                  /\ warms[k].st = "run"
                        => \E i \in 1..Len(warms[k].w) :
                              warms[k].w[i].st \in {"info", "tts"})
    /\ [][Len(warms') = Len(warms)
             => \A k \in 1..Len(warms) : SkipsOnlyKnown(k)]_vars

\* C30 witness: a call has completed in which a worker went on, after a
\* candidate that failed, to one that was stored, while an overlapping call
\* has skipped a candidate
C30_Witness ==
    \E k, k2 \in 1..Len(warms) :
        /\ warms[k].st = "done"
        /\ \E a, b \in 1..Len(warms[k].log) :
              /\ a < b
              /\ warms[k].log[a].out = "fail"
              /\ warms[k].log[b].out = "ok"
              /\ warms[k].log[a].w = warms[k].log[b].w
        /\ \E c \in 1..Len(warms[k2].log) : warms[k2].log[c].out = "skip"

----------------------------------------------------------------------------
(* Grading on the server *)

\* the requests for action sent to AnkiConnect while serving h
Sent(h, action) == {i \in 1..Len(h.calls) : h.calls[i].action = action}

\* every grade submission was preceded by a reveal attempt
RevealFirst(h) ==
    \A j \in Sent(h, "guiAnswerCard") : \E i \in Sent(h, "guiShowAnswer") : i < j

\* the reveal attempt is over, whatever its outcome
RevealOver(h) == h.pc # "guiShowAnswer"

\* the ease is a JSON number among 1, 2, 3, 4
OneToFour(x) == x.t = "number" /\ x.v \in 1..4

\* C24 as stated, "ease in 1..4" read as the value of the ease field: such a
\* request has its reveal attempted before the grade and the grade submitted
\* whatever the reveal did; any other request is answered with an error and
\* causes no request to AnkiConnect.
C24_Original ==
    srv.served > 0 =>
        IF OneToFour(srv.ease)
        THEN /\ RevealFirst(srv)
             /\ RevealOver(srv) => Sent(srv, "guiAnswerCard") # {}
        ELSE /\ srv.calls = <<>>
             /\ srv.status = 400

\* C24 amended: a request whose ease converts, by Number(ease), to 1, 2, 3
\* or 4 has guiShowAnswer attempted first and guiAnswerCard submitted with
\* the converted value once the reveal attempt is over, whether it
\* succeeded, failed or timed out; a request whose ease converts to anything
\* else is answered 400 without any request to AnkiConnect.
C24_RevealThenGrade ==
    srv.served > 0 =>
        IF Number(srv.ease) \in 1..4
        THEN /\ srv.calls # <<>>
             /\ srv.calls[1].action = "guiShowAnswer"
             /\ RevealFirst(srv)
             /\ RevealOver(srv) => Sent(srv, "guiAnswerCard") # {}
             /\ srv.status \in {0, 200, 500}
        ELSE /\ srv.calls = <<>>
             /\ srv.pc = "idle"
             /\ srv.status = 400

\* C24 witness: a request is answered 200 after its reveal attempt failed and
\* its grade was accepted
C24_Witness ==
    /\ srv.status = 200
    /\ srv.calls[1] = [action |-> "guiShowAnswer", out |-> "error"]
    /\ \E j \in Sent(srv, "guiAnswerCard") : srv.calls[j].out = "ok"

----------------------------------------------------------------------------
(* Teardown *)

\* C31: after the teardown cleanup has run, every handle the cache holds has
\* been released, at every later state: also when a prefetch that was in
\* flight at teardown completes afterwards.
C31_NoHandleAfterTeardown ==
    ~mounted => \A i \in 1..Len(ttsCache) : Count(revoked, ttsCache[i].url) > 0


----------------------------------------------------------------------------
(* ankiInvoke *)

\* the message contains one of the three phrases named by the claim
Transient(msg) ==
    \E part \in {<<"socket", "hang", "up">>, <<"ECONNRESET">>, <<"timeout">>} :
        \E i \in 1..Len(msg) :
            \A j \in 1..Len(part) : i + j - 1 <= Len(msg) /\ msg[i + j - 1] = part[j]

\* the attempts of a call that were followed by another attempt
Retried(atts) == {atts[j] : j \in 1..(Len(atts) - 1)}

\* C32: one ankiInvoke call makes at most ANKI_RETRIES + 1 attempts; an
\* attempt is followed by another only if it failed with a message that
\* includes "socket hang up", "ECONNRESET" or "timeout" (so never after a
\* success); the call returns the result of its successful attempt, and
\* throws the error of its last attempt when that error is of another kind
\* or the retries are used up.
C32_BoundedRetries ==
    /\ Len(srv.atts) <= ANKI_RETRIES
    /\ \A msg \in Range(srv.atts) : msg # NoError /\ Transient(msg)
    /\ LET d == srv.done
       IN  d.end # "none" =>
             /\ Len(d.atts) \in 1..(ANKI_RETRIES + 1)
             /\ \A msg \in Retried(d.atts) : msg # NoError /\ Transient(msg)
             /\ d.end = "returned" <=> Last(d.atts) = NoError
             /\ d.end = "returned" => d.result = Len(d.atts) /\ d.err = NoError
             /\ d.end = "threw" =>
                   /\ d.err = Last(d.atts)
                   /\ ~Transient(d.err) \/ Len(d.atts) = ANKI_RETRIES + 1

\* C32 witness: a call threw its third attempt's error after two retries for
\* two other retried errors
C32_Witness ==
    /\ srv.done.end = "threw"
    /\ srv.done.atts = << <<"socket", "hang", "up">>, <<"read", "ECONNRESET">>,
                          <<"The", "operation", "was", "aborted", "due", "to", "timeout">> >>


----------------------------------------------------------------------------
(* Handles: selected, stored, released *)

\* the URLs a step revokes
RevokedByStep == {u \in DOMAIN revoked' : Count(revoked', u) > Count(revoked, u)}

\* C33: a cacheSet that evicts an entry never revokes the URL that is the
\* current ttsUrl: the handle selected for playback is not released by an
\* eviction while it is selected.
C33_SelectedNeverEvicted ==
    [][\A u \in RevokedByStep : Len(ttsCache') <= Len(ttsCache) /\ ttsCache' # ttsCache
                                     => u # ttsUrl']_vars


\* the blob URLs created so far
Created == UNION {{[card |-> c, k |-> k] : k \in 1..made[c]} : c \in DOMAIN made}

\* the URL is selected for playback: it is ttsUrl, or still the source the
\* autoplay effect last ran with (its cleanup is yet to run)
Selected(u) == u = ttsUrl \/ u = effect.url

\* C34: every blob URL created by a synthesis that has settled is stored in
\* the cache, selected for playback, or released.
C34_NoHandleLeft ==
    \A u \in Created :
        \/ \E i \in 1..Len(ttsCache) : ttsCache[i].url = u
        \/ Selected(u)
        \/ Count(revoked, u) > 0


----------------------------------------------------------------------------
(* The microphone and the lock *)

\* C35: every startListeningForAnswer call that created a recorder has run
\* the recorder's stop() when it settles, on every path (completion, no
\* speech, stale sequence, failure of start, of the capture or of the
\* request); so whenever the re-entrancy lock is free no microphone track is
\* live.
C35_StopBeforeSettling ==
    /\ [](~sttLock => stt.tracks # "live" /\ ~stt.running)
    /\ [][(listen.pc # "idle" /\ listen'.pc = "idle")
             => /\ Stopped(stt')
                /\ stt'.stops > stt.stops
                /\ ~sttLock']_vars

\* C35 witness: a call whose start() opened the microphone and then failed
\* has settled: the stream's tracks are ended and the lock is free
C35_Witness ==
    /\ ~sttLock
    /\ listen = Idle
    /\ presses = <<"started">>
    /\ stt.startPc = "failed"
    /\ stt.tracks = "ended"


\* C36: every startListeningForAnswer call settles and the lock is then
\* released, whatever the playback state of the audio element when Record
\* was pressed (no source, playing, ended, paused, not started), provided
\* the collaborator calls settle.
C36_ListenSettles ==
    sttLock ~> ~sttLock


----------------------------------------------------------------------------
(* handleStart and the loading flag *)

\* C37: every handleStart call that set loading to true eventually resets it
\* to false, on every outcome: no cards, start error, inactive reviewer,
\* success, and a rejected start request, current-card fetch or synthesis.
C37_LoadingReset ==
    loading ~> ~loading


----------------------------------------------------------------------------
(* Overlapping grades *)

\* C38: grade() calls do not overlap: no grade() submits an answer while
\* another one is between submitting its answer and advancing the sequence.
C38_GradesDoNotOverlap ==
    [][grades'.answer > grades.answer => grades.answer + grades.fetch = 0]_vars


----------------------------------------------------------------------------
(* The recorder's callbacks *)

\* the positions of callback cb in the callbacks invoked so far
Calls(cbs, cb) == {i \in 1..Len(cbs) : cbs[i] = cb}

\* C39: in each recordOneUtterance call onStartRecording is called at most
\* once and onStopRecording at most once, and onStopRecording only after
\* onStartRecording was called in the same call.
C39_CallbacksPaired ==
    LET cbs == stt.call.cbs
    IN  /\ Cardinality(Calls(cbs, "onStartRecording")) <= 1
        /\ Cardinality(Calls(cbs, "onStopRecording")) <= 1
        /\ \A j \in Calls(cbs, "onStopRecording") :
              \E i \in Calls(cbs, "onStartRecording") : i < j


============================================================================
